---- MODULE Spec2Model ----
(***************************************************************************)
(* IvyRecon reconciliation engine (ss-mathews/ivyrecon).                   *)
(*                                                                         *)
(* Tables are sequences of rows.  Money is held in integer cents (the code *)
(* holds float dollars with two decimals; every comparison the code makes  *)
(* on round(x*100) is made here on the cents).  Text cells are strings.    *)
(* A cell pandas would hold as NaN is the marker NaN (text) or NA (money). *)
(***************************************************************************)
EXTENDS Integers, Sequences, FiniteSets, TLC

\* the run of the application and the direct calls of the engine
VARIABLES payroll, carrier, benadmin, tol, pc, p_df, c_df, b_df, errors_df, summary_df, freq_resolved, dropped_rd, dropped_freq, pre_df, call

\* the calls of aliases.py: the two alias tables of the caller as they were
\* built (alias_a0, alias_b0) and as they are now (alias_a, alias_b), the
\* table returned and the function that returned it, the plan text and the
\* threshold resolved against it, the name returned, the installed rapidfuzz
VARIABLES alias_a0, alias_b0, alias_a, alias_b, alias_table, alias_fn, alias_name, alias_thr, alias_res, alias_pc, rapidfuzz_preprocess

\* the engine and the table transforms called on tables as a caller holds
\* them: the three tables as they were built (tab0) and as they are now
\* (tab), what the call returned or raised (ret)
VARIABLES tab0, tab, ret, tpc

runVars == <<payroll, carrier, benadmin, tol, pc, p_df, c_df, b_df, errors_df, summary_df, freq_resolved, dropped_rd, dropped_freq, pre_df, call>>

aliasVars == <<alias_a0, alias_b0, alias_a, alias_b, alias_table, alias_fn, alias_name, alias_thr, alias_res, alias_pc, rapidfuzz_preprocess>>

tableVars == <<tab0, tab, ret, tpc>>

vars == <<runVars, aliasVars, tableVars>>

(***************************************************************************)
(* Bounds of the model.                                                    *)
(***************************************************************************)
\* total number of rows over the three uploaded tables
MaxRows == 3
\* largest amount tolerance (cents) tried; the slider allows 0..25
MaxTol == 2

(***************************************************************************)
(* Markers for missing cells.                                              *)
(***************************************************************************)
NaN == "NaN"
None == "None"
NA == 0 - 1

\* pd.notna on a text cell and on a money cell
notna(x) == x # NaN
notnum(x) == x # NA

Sources == {"Payroll", "Carrier", "BenAdmin"}

(***************************************************************************)
(* Strings: code-point order, sorting, joining.                            *)
(***************************************************************************)
Ascii == " $&(),-.0123456789ABCDEFGHIJKLMNOPQRSTUVWXYZ_abcdefghijklmnopqrstuvwxyz|"

CharRank == [c \in {SubSeq(Ascii, i, i) : i \in 1..Len(Ascii)} |-> CHOOSE i \in 1..Len(Ascii) : SubSeq(Ascii, i, i) = c]

RECURSIVE StrLess(_, _)
StrLess(s, t) ==
    IF s = "" THEN t # ""
    ELSE IF t = "" THEN FALSE
    ELSE IF Head(s) = Head(t) THEN StrLess(Tail(s), Tail(t))
    ELSE CharRank[Head(s)] < CharRank[Head(t)]

RECURSIVE SortStrings(_)
SortStrings(S) ==
    IF S = {} THEN <<>>
    ELSE LET Rest(m) == <<m>> \o SortStrings(S \ {m})
         IN Rest(CHOOSE x \in S : \A y \in S : ~StrLess(y, x))

RECURSIVE JoinWith(_, _)
JoinWith(parts, sep) ==
    IF Len(parts) = 0 THEN ""
    ELSE IF Len(parts) = 1 THEN parts[1]
    ELSE parts[1] \o sep \o JoinWith(Tail(parts), sep)

RECURSIVE Flatten(_)
Flatten(ss) == IF Len(ss) = 0 THEN <<>> ELSE Head(ss) \o Flatten(Tail(ss))

Range(s) == {s[i] : i \in 1..Len(s)}

\* the distinct values of s, in order of first appearance
RECURSIVE FirstSeen(_, _)
FirstSeen(s, seen) ==
    IF Len(s) = 0 THEN <<>>
    ELSE IF Head(s) \in seen THEN FirstSeen(Tail(s), seen)
    ELSE <<Head(s)>> \o FirstSeen(Tail(s), seen \cup {Head(s)})

\* the sum of a sequence of numbers
RECURSIVE SumSeq(_)
SumSeq(s) == IF Len(s) = 0 THEN 0 ELSE Head(s) + SumSeq(Tail(s))

\* one column of a table
Column(rows, field) == [i \in 1..Len(rows) |-> rows[i][field]]

Abs(n) == IF n < 0 THEN 0 - n ELSE n
Max(a, b) == IF a >= b THEN a ELSE b

(***************************************************************************)
(* utils.py                                                                *)
(*                                                                         *)
(* A value computed once and read several times is passed as the argument  *)
(* of a local operator (LET F(x) == ... IN F(e)), as the code binds it to  *)
(* a local variable.                                                       *)
(***************************************************************************)
UpperChars == "ABCDEFGHIJKLMNOPQRSTUVWXYZ"
LowerChars == "abcdefghijklmnopqrstuvwxyz"
DigitChars == "0123456789"

CharsOf(s) == {SubSeq(s, i, i) : i \in 1..Len(s)}

UpperSet == CharsOf(UpperChars)
DigitSet == CharsOf(DigitChars)
\* [a-z0-9]
AlnumSet == CharsOf(LowerChars) \cup CharsOf(DigitChars)

LowerOf == [c \in CharsOf(UpperChars) |-> LET k == CHOOSE i \in 1..Len(UpperChars) : SubSeq(UpperChars, i, i) = c IN SubSeq(LowerChars, k, k)]

\* str.lower()
RECURSIVE lower(_)
lower(s) ==
    IF s = "" THEN ""
    ELSE (IF Head(s) \in UpperSet THEN LowerOf[Head(s)] ELSE Head(s)) \o lower(Tail(s))

RECURSIVE lstrip(_)
lstrip(s) == IF s # "" /\ Head(s) = " " THEN lstrip(Tail(s)) ELSE s

RECURSIVE rstrip(_)
rstrip(s) == IF s # "" /\ SubSeq(s, Len(s), Len(s)) = " " THEN rstrip(SubSeq(s, 1, Len(s) - 1)) ELSE s

\* str.strip()
strip(s) == rstrip(lstrip(s))

\* str.split(): the maximal runs of non-space characters
RECURSIVE SplitFrom(_, _)
SplitFrom(s, cur) ==
    IF s = "" THEN (IF cur = "" THEN <<>> ELSE <<cur>>)
    ELSE IF Head(s) = " " THEN (IF cur = "" THEN <<>> ELSE <<cur>>) \o SplitFrom(Tail(s), "")
    ELSE SplitFrom(Tail(s), cur \o Head(s))

split(s) == SplitFrom(s, "")

\* re.sub(r"[^a-z0-9]+", " ", s)
RECURSIVE SubNonAlnum(_, _)
SubNonAlnum(s, inRun) ==
    IF s = "" THEN ""
    ELSE IF Head(s) \in AlnumSet
         THEN Head(s) \o SubNonAlnum(Tail(s), FALSE)
         ELSE (IF inRun THEN "" ELSE " ") \o SubNonAlnum(Tail(s), TRUE)

\* re.sub(r"\s+", " ", s)
RECURSIVE CollapseSpaces(_, _)
CollapseSpaces(s, inRun) ==
    IF s = "" THEN ""
    ELSE IF Head(s) = " " THEN (IF inRun THEN "" ELSE " ") \o CollapseSpaces(Tail(s), TRUE)
    ELSE Head(s) \o CollapseSpaces(Tail(s), FALSE)

PLAN_ALIASES ==
    [medical |-> "health", health |-> "health",
     std |-> "short term disability", ltd |-> "long term disability",
     dental |-> "dental", vision |-> "vision",
     ppo |-> "ppo", hmo |-> "hmo", hsa |-> "hsa", fsa |-> "fsa"]

PlanAliasKeys == DOMAIN PLAN_ALIASES

normalize_plan_name(s0) ==
    LET Tokens(toks) ==
            JoinWith([i \in 1..Len(toks) |-> IF toks[i] \in PlanAliasKeys THEN PLAN_ALIASES[toks[i]] ELSE toks[i]], " ")
    IN Tokens(split(strip(CollapseSpaces(SubNonAlnum(lower(strip(s0)), FALSE), FALSE))))

\* difflib.SequenceMatcher: the longest block a[i..i+k-1] = b[j..j+k-1], the
\* earliest in a and then in b among the longest; k = 0 when nothing matches.
LongestMatch(a, b) ==
    LET Blocks(k) == {ij \in (1..(Len(a) - k + 1)) \X (1..(Len(b) - k + 1)) :
                         SubSeq(a, ij[1], ij[1] + k - 1) = SubSeq(b, ij[2], ij[2] + k - 1)}
        First(S) == CHOOSE x \in S : \A y \in S : x[1] < y[1] \/ (x[1] = y[1] /\ x[2] <= y[2])
        Pick(k, ij) == [i |-> ij[1], j |-> ij[2], k |-> k]
        Longest(Ks) ==
            IF Ks = {} THEN [i |-> 1, j |-> 1, k |-> 0]
            ELSE LET AtK(k) == Pick(k, First(Blocks(k)))
                 IN AtK(CHOOSE x \in Ks : \A y \in Ks : y <= x)
    IN Longest({k \in 1..(IF Len(a) < Len(b) THEN Len(a) ELSE Len(b)) : Blocks(k) # {}})

\* total size of SequenceMatcher.get_matching_blocks()
RECURSIVE MatchCount(_, _)
MatchCount(a, b) ==
    IF a = "" \/ b = "" THEN 0
    ELSE IF a = b THEN Len(a)
    ELSE LET Around(m) ==
                 IF m.k = 0 THEN 0
                 ELSE m.k + MatchCount(SubSeq(a, 1, m.i - 1), SubSeq(b, 1, m.j - 1))
                          + MatchCount(SubSeq(a, m.i + m.k, Len(a)), SubSeq(b, m.j + m.k, Len(b)))
         IN Around(LongestMatch(a, b))

\* SequenceMatcher.ratio() = 2*M/T, kept as the fraction m/t (1.0 when T = 0)
plan_similarity(a, b) ==
    LET Ratio(a_n, b_n) ==
            IF Len(a_n) + Len(b_n) = 0 THEN [m |-> 1, t |-> 1]
            ELSE [m |-> 2 * MatchCount(a_n, b_n), t |-> Len(a_n) + Len(b_n)]
    IN Ratio(normalize_plan_name(a), normalize_plan_name(b))

\* sim < threshold, the threshold in thousandths
SimBelow(sim, thr) == sim.m * 1000 < thr * sim.t

REQUIRED_COLS == <<"SSN", "First Name", "Last Name", "Plan Name", "Employee Cost", "Employer Cost">>

CANONICAL_MAP ==
    <<<<"ssn", "SSN">>, <<"social security number", "SSN">>,
      <<"first name", "First Name">>, <<"last name", "Last Name">>,
      <<"plan", "Plan Name">>, <<"plan name", "Plan Name">>,
      <<"employee amount", "Employee Cost">>, <<"employee cost", "Employee Cost">>,
      <<"employer amount", "Employer Cost">>, <<"employer cost", "Employer Cost">>>>

\* CANONICAL_MAP.get(key, None), key the header trimmed, lowercased, its
\* runs of whitespace collapsed
normalize_header(h) ==
    LET Get(hits) == IF hits = {} THEN None ELSE CANONICAL_MAP[CHOOSE i \in hits : TRUE][2]
        Find(key) == Get({i \in 1..Len(CANONICAL_MAP) : CANONICAL_MAP[i][1] = key})
    IN Find(CollapseSpaces(lower(strip(h)), FALSE))

\* a table as a caller holds it: cols, its columns in order, each a header
\* (name) and the field of the row records that holds its cells; rows
\* df.rename(columns=new_cols): a new table, the headers it knows renamed
standardize_columns(df) ==
    LET Renamed(c, m) == [c EXCEPT !.name = IF m # None THEN m ELSE c.name]
    IN [cols |-> [i \in 1..Len(df.cols) |-> Renamed(df.cols[i], normalize_header(df.cols[i].name))],
        rows |-> df.rows]

ColumnNames(df) == {df.cols[i].name : i \in 1..Len(df.cols)}

NotAColumn(df, c) == c \notin ColumnNames(df)

\* validate_required_columns returning only the first missing column
validate_required_columns_first_missing(df) ==
    LET First(missing) == IF Len(missing) > 1 THEN SubSeq(missing, 1, 1) ELSE missing
    IN First(SelectSeq(REQUIRED_COLS, LAMBDA c : NotAColumn(df, c)))

validate_required_columns(df) == SelectSeq(REQUIRED_COLS, LAMBDA c : NotAColumn(df, c))

\* str.replace(r"\D", "", regex=True)
RECURSIVE digits_only(_)
digits_only(s) ==
    IF s = "" THEN ""
    ELSE (IF Head(s) \in DigitSet THEN Head(s) ELSE "") \o digits_only(Tail(s))

\* a money cell whose text pd.to_numeric cannot parse
NotNumeric == -2

\* pd.to_numeric(errors="coerce").fillna(0.0) on one cell
to_numeric_fill0(x) == IF x = NA \/ x = NotNumeric THEN 0 ELSE x

\* coerce_types with pd.to_numeric(errors="coerce") and no fillna(0.0)
coerce_types_no_fillna(df) ==
    [i \in 1..Len(df) |->
        [df[i] EXCEPT !.first = strip(df[i].first), !.last = strip(df[i].last),
                      !.plan = strip(df[i].plan), !.ssn = digits_only(df[i].ssn),
                      !.ee = IF df[i].ee = NotNumeric THEN NA ELSE df[i].ee,
                      !.er = IF df[i].er = NotNumeric THEN NA ELSE df[i].er]]

coerce_types(df) ==
    [i \in 1..Len(df) |->
        [df[i] EXCEPT !.first = strip(df[i].first), !.last = strip(df[i].last),
                      !.plan = strip(df[i].plan), !.ssn = digits_only(df[i].ssn),
                      !.ee = to_numeric_fill0(df[i].ee), !.er = to_numeric_fill0(df[i].er)]]

(***************************************************************************)
(* reconcile.py                                                            *)
(***************************************************************************)
EeCol(name) == "Employee Cost (" \o name \o ")"
ErCol(name) == "Employer Cost (" \o name \o ")"

NoCost == [s \in Sources |-> NA]

\* the cells of the absent side of an outer-joined row
NaRow == [ssn |-> NaN, first |-> NaN, last |-> NaN, plan |-> NaN, ee |-> NA, er |-> NA]

\* a DataFrame of discrepancies: its columns in order, and its rows
Frame(cols, rows) == [cols |-> cols, rows |-> rows]

NoFrame == Frame(<<>>, <<>>)

\* pd.DataFrame().empty: no column or no row
IsEmpty(df) == Len(df.rows) = 0 \/ Len(df.cols) = 0

\* pd.concat(parts, ignore_index=True): the union of the columns in order of
\* first appearance, the rows of the parts one after the other
ConcatFrames(parts) ==
    Frame(FirstSeen(Flatten([i \in 1..Len(parts) |-> parts[i].cols]), {}),
          Flatten([i \in 1..Len(parts) |-> parts[i].rows]))

\* _prepare keying the rows by the identity alone
_prepare_key_ssn_only(df, source_name) ==
    LET Keyed(co) ==
            [i \in 1..Len(co) |->
                [ssn |-> co[i].ssn, first |-> co[i].first, last |-> co[i].last, plan |-> co[i].plan,
                 ee |-> co[i].ee, er |-> co[i].er,
                 Key |-> co[i].ssn, Source |-> source_name]]
    IN Keyed(coerce_types(df))

_prepare(df, source_name) ==
    LET Keyed(co) ==
            [i \in 1..Len(co) |->
                [ssn |-> co[i].ssn, first |-> co[i].first, last |-> co[i].last, plan |-> co[i].plan,
                 ee |-> co[i].ee, er |-> co[i].er,
                 Key |-> co[i].ssn \o "||" \o co[i].plan, Source |-> source_name]]
    IN Keyed(coerce_types(df))

\* one side of a joined row
Side(r) == [ssn |-> r.ssn, first |-> r.first, last |-> r.last, plan |-> r.plan, ee |-> r.ee, er |-> r.er]

\* the joined rows of one key: one per pair (A row, B row) when both sides have
\* the key, else one per row of the side that has it, the other side's cells NaN
JoinRows(as, bs) ==
    IF Len(bs) = 0 THEN [i \in 1..Len(as) |-> [a |-> Side(as[i]), b |-> NaRow]]
    ELSE IF Len(as) = 0 THEN [j \in 1..Len(bs) |-> [a |-> NaRow, b |-> Side(bs[j])]]
    ELSE [n \in 1..(Len(as) * Len(bs)) |->
             [a |-> Side(as[((n - 1) \div Len(bs)) + 1]), b |-> Side(bs[((n - 1) % Len(bs)) + 1])]]

\* pd.merge(A, B, on="Key", how="outer"): the keys in sorted order
MergeOnKey(A, B) ==
    LET Join(keys) ==
            Flatten([i \in 1..Len(keys) |->
                        JoinRows(SelectSeq(A, LAMBDA r : r.Key = keys[i]), SelectSeq(B, LAMBDA r : r.Key = keys[i]))])
    IN Join(SortStrings({A[i].Key : i \in 1..Len(A)} \cup {B[i].Key : i \in 1..Len(B)}))

_err_cols(a_name, b_name) ==
    <<"Error Type", "SSN", "First Name", "Last Name", "Plan Name",
      EeCol(a_name), EeCol(b_name), ErCol(a_name), ErCol(b_name), "Similarity">>

\* the cost cells of a discrepancy: one per source column
CostCells(a_name, a_val, b_name, b_val) ==
    [s \in Sources |-> IF s = a_name THEN a_val ELSE IF s = b_name THEN b_val ELSE NA]

_err_row(r, a_name, b_name, err_type, sim) ==
    [type |-> err_type,
     ssn |-> IF notna(r.a.ssn) THEN r.a.ssn ELSE r.b.ssn,
     first |-> IF notna(r.a.first) THEN r.a.first ELSE r.b.first,
     last |-> IF notna(r.a.last) THEN r.a.last ELSE r.b.last,
     plan |-> IF notna(r.a.plan) THEN r.a.plan ELSE r.b.plan,
     ee |-> CostCells(a_name, r.a.ee, b_name, r.b.ee),
     er |-> CostCells(a_name, r.a.er, b_name, r.b.er),
     sim |-> sim]

\* round(sim, 3), in thousandths
RoundSim(sim) == (2 * sim.m * 1000 + sim.t) \div (2 * sim.t)

\* the discrepancies of one joined row (the body of reconcile_two's loop)
RowErrors(r, a_name, b_name, thr) ==
    LET Typed(t, sim) == _err_row(r, a_name, b_name, t, sim)
        Both(sim) ==
            (IF SimBelow(sim, thr) THEN <<Typed("Plan Name Mismatch", RoundSim(sim))>> ELSE <<>>)
            \o (IF notnum(r.a.ee) /\ notnum(r.b.ee) /\ r.a.ee # r.b.ee
                THEN <<Typed("Employee Amount Mismatch", NA)>> ELSE <<>>)
            \o (IF notnum(r.a.er) /\ notnum(r.b.er) /\ r.a.er # r.b.er
                THEN <<Typed("Employer Amount Mismatch", NA)>> ELSE <<>>)
    IN IF notna(r.a.ssn) /\ ~notna(r.b.ssn) THEN <<Typed("Missing in " \o b_name, NA)>>
       ELSE IF notna(r.b.ssn) /\ ~notna(r.a.ssn) THEN <<Typed("Missing in " \o a_name, NA)>>
       ELSE Both(plan_similarity(r.a.plan, r.b.plan))

\* the "Duplicate SSN with Different Plans" rows: ssn_plans is filled by the
\* joined rows present on both sides, in their order
DuplicateErrors(merged) ==
    LET Dup(both) ==
            LET plans(ssn) == UNION {{normalize_plan_name(both[i].a.plan), normalize_plan_name(both[i].b.plan)} :
                                        i \in {j \in 1..Len(both) : both[j].a.ssn = ssn}}
                Emit(ssn, ps) ==
                    IF Cardinality(ps \ {""}) > 1
                    THEN <<[type |-> "Duplicate SSN with Different Plans", ssn |-> ssn, first |-> None, last |-> None,
                            plan |-> JoinWith(SortStrings(ps), ", "), ee |-> NoCost, er |-> NoCost, sim |-> NA]>>
                    ELSE <<>>
                Each(ssns) == Flatten([i \in 1..Len(ssns) |-> Emit(ssns[i], plans(ssns[i]))])
            IN Each(FirstSeen([i \in 1..Len(both) |-> both[i].a.ssn], {}))
    IN Dup(SelectSeq(merged, LAMBDA r : notna(r.a.ssn) /\ notna(r.b.ssn) /\ r.a.ssn # ""))

CountType(rows, t) == Cardinality({i \in 1..Len(rows) : rows[i].type = t})

\* Series.value_counts(): one row per value, the most frequent first (equal
\* counts in order of first appearance)
RECURSIVE ByCountDesc(_, _)
ByCountDesc(types, rows) ==
    IF Len(types) = 0 THEN <<>>
    ELSE LET Rest(best) == <<types[best]>> \o ByCountDesc(SubSeq(types, 1, best - 1) \o SubSeq(types, best + 1, Len(types)), rows)
         IN Rest(CHOOSE i \in 1..Len(types) :
                    /\ \A j \in 1..Len(types) : CountType(rows, types[j]) <= CountType(rows, types[i])
                    /\ \A j \in 1..(i - 1) : CountType(rows, types[j]) < CountType(rows, types[i]))

value_counts(rows) ==
    LET Counted(types) == [i \in 1..Len(types) |-> [type |-> types[i], count |-> CountType(rows, types[i])]]
    IN Counted(ByCountDesc(FirstSeen(Column(rows, "type"), {}), rows))

RECURSIVE SumCounts(_)
SumCounts(summary) == IF Len(summary) = 0 THEN 0 ELSE Head(summary).count + SumCounts(Tail(summary))

TotalRow(n) == [type |-> "Total", count |-> n]

\* pd.concat([summary, Total row])
WithTotal(summary) == summary \o <<TotalRow(SumCounts(summary))>>

\* _summarize with the Total taken as the number of distinct error types
\* (summary.shape[0] where the code sums the Count column)
_summarize_total_of_types(errs) ==
    IF IsEmpty(errs) THEN <<TotalRow(0)>>
    ELSE LET Typed(summary) == summary \o <<TotalRow(Len(summary))>>
         IN Typed(value_counts(errs.rows))

_summarize(errs) ==
    IF IsEmpty(errs) THEN <<TotalRow(0)>>
    ELSE WithTotal(value_counts(errs.rows))

\* reconcile_two up to errors_df (lines 21-77)
reconcile_two_errors(a, b, a_name, b_name, plan_match_threshold) ==
    LET Loop(merged) ==
            Frame(_err_cols(a_name, b_name),
                  Flatten([i \in 1..Len(merged) |-> RowErrors(merged[i], a_name, b_name, plan_match_threshold)])
                      \o DuplicateErrors(merged))
    IN Loop(MergeOnKey(_prepare(a, a_name), _prepare(b, b_name)))

reconcile_two(a, b, a_name, b_name, plan_match_threshold) ==
    LET Return(errs) == [errors |-> errs, summary |-> _summarize(errs)]
    IN Return(reconcile_two_errors(a, b, a_name, b_name, plan_match_threshold))

\* the "__k" column of reconcile_three
DedupKey(r) == r.type \o "|" \o r.ssn \o "|" \o r.plan

\* DataFrame.drop_duplicates(key): keep the first row of each key, keys[i]
\* being the key of rows[i]
RECURSIVE DropDuplicatesBy(_, _, _)
DropDuplicatesBy(rows, keys, seen) ==
    IF Len(rows) = 0 THEN <<>>
    ELSE IF Head(keys) \in seen THEN DropDuplicatesBy(Tail(rows), Tail(keys), seen)
    ELSE <<Head(rows)>> \o DropDuplicatesBy(Tail(rows), Tail(keys), seen \cup {Head(keys)})

\* the summary reconcile_three builds (lines 122-126)
summary_three(all_errs) ==
    LET Total(summary) == IF Len(summary) # 0 THEN WithTotal(summary) ELSE summary
    IN Total(IF ~IsEmpty(all_errs) THEN value_counts(all_errs.rows) ELSE <<TotalRow(0)>>)

\* the three pairwise comparisons, in the order they are made
PairList == <<<<"Payroll", "Carrier">>, <<"Payroll", "BenAdmin">>, <<"Carrier", "BenAdmin">>>>

\* reconcile_three without the drop_duplicates("__k") step
reconcile_three_no_dedup(payroll_, carrier_, benadmin_, plan_match_threshold) ==
    LET T(name) == IF name = "Payroll" THEN payroll_ ELSE IF name = "Carrier" THEN carrier_ ELSE benadmin_
        Return(all_errs) == [errors |-> all_errs, summary |-> summary_three(all_errs)]
    IN Return(ConcatFrames([i \in 1..3 |->
                  reconcile_two_errors(T(PairList[i][1]), T(PairList[i][2]), PairList[i][1], PairList[i][2],
                                       plan_match_threshold)]))

reconcile_three(payroll_, carrier_, benadmin_, plan_match_threshold) ==
    LET T(name) == IF name = "Payroll" THEN payroll_ ELSE IF name = "Carrier" THEN carrier_ ELSE benadmin_
        Return(all_errs) == [errors |-> all_errs, summary |-> summary_three(all_errs)]
        Dedup(cat) ==
            Return(IF IsEmpty(cat) THEN cat
                   ELSE Frame(cat.cols, DropDuplicatesBy(cat.rows, [i \in 1..Len(cat.rows) |-> DedupKey(cat.rows[i])], {})))
    IN Dedup(ConcatFrames([i \in 1..3 |->
                 reconcile_two_errors(T(PairList[i][1]), T(PairList[i][2]), PairList[i][1], PairList[i][2],
                                      plan_match_threshold)]))

\* the cells of the six required columns of a table that has them
RequiredCells(df) ==
    LET FieldOf(name) == df.cols[CHOOSE i \in 1..Len(df.cols) : df.cols[i].name = name].field
    IN [i \in 1..Len(df.rows) |->
           [ssn |-> df.rows[i][FieldOf("SSN")], first |-> df.rows[i][FieldOf("First Name")],
            last |-> df.rows[i][FieldOf("Last Name")], plan |-> df.rows[i][FieldOf("Plan Name")],
            ee |-> df.rows[i][FieldOf("Employee Cost")], er |-> df.rows[i][FieldOf("Employer Cost")]]]

\* the first lines of _prepare: the message of the ValueError raised for a
\* table that lacks required columns, None for a table that has them all
_prepare_raises(df, source_name) ==
    LET Message(missing) ==
            IF Len(missing) # 0 THEN source_name \o ": Missing required columns: " \o JoinWith(missing, ", ")
            ELSE None
    IN Message(validate_required_columns(standardize_columns(df)))

\* a call that raised returns nothing
Raised(message) == [raised |-> message, errors |-> NoFrame, summary |-> <<>>]

Returned(res) == [raised |-> None, errors |-> res.errors, summary |-> res.summary]

\* reconcile_two on tables as the caller holds them: _prepare of a, then of
\* b, may raise; the tables themselves are copied (a.copy(), b.copy())
reconcile_two_tables(a, b, a_name, b_name, plan_match_threshold) ==
    LET Both(raised_b) ==
            IF raised_b # None THEN Raised(raised_b)
            ELSE Returned(reconcile_two(RequiredCells(standardize_columns(a)), RequiredCells(standardize_columns(b)),
                                        a_name, b_name, plan_match_threshold))
        First(raised_a) == IF raised_a # None THEN Raised(raised_a) ELSE Both(_prepare_raises(b, b_name))
    IN First(_prepare_raises(a, a_name))

\* reconcile_three on tables as the caller holds them: the first of its three
\* calls of reconcile_two that raises ends it
reconcile_three_tables(payroll_, carrier_, benadmin_, plan_match_threshold) ==
    LET Third(raised_b) ==
            IF raised_b # None THEN Raised(raised_b)
            ELSE Returned(reconcile_three(RequiredCells(standardize_columns(payroll_)),
                                          RequiredCells(standardize_columns(carrier_)),
                                          RequiredCells(standardize_columns(benadmin_)), plan_match_threshold))
        Second(raised_c) == IF raised_c # None THEN Raised(raised_c) ELSE Third(_prepare_raises(benadmin_, "BenAdmin"))
        First(raised_p) == IF raised_p # None THEN Raised(raised_p) ELSE Second(_prepare_raises(carrier_, "Carrier"))
    IN First(_prepare_raises(payroll_, "Payroll"))

(***************************************************************************)
(* aliases.py.  A dict is the sequence of its entries in insertion order,  *)
(* the keys distinct; an entry of an alias table is its canonical name and *)
(* its list of aliases.  A threshold is held in thousandths.               *)
(***************************************************************************)
DEFAULT_ALIASES ==
    <<[canon |-> "medical", al |-> <<"health", "med", "medical plan", "health plan">>],
      [canon |-> "dental", al |-> <<"dent", "dntl">>],
      [canon |-> "vision", al |-> <<"vis", "vba">>],
      [canon |-> "short term disability", al |-> <<"std", "short-term disability", "short term dis", "short term">>],
      [canon |-> "long term disability", al |-> <<"ltd", "long-term disability", "long term dis", "long term">>],
      [canon |-> "life", al |-> <<"basic life", "group life", "life insurance">>],
      [canon |-> "hsa", al |-> <<"health savings account", "hsa plan">>],
      [canon |-> "fsa", al |-> <<"flexible spending account", "medical fsa", "fsa medical">>]>>

DictKeys(d) == {d[i].canon : i \in 1..Len(d)}

\* d.get(k, [])
DictGet(d, k) == IF k \in DictKeys(d) THEN d[CHOOSE i \in 1..Len(d) : d[i].canon = k].al ELSE <<>>

\* d[k] = v: the value of an existing key replaced in place, a new key appended
DictSet(d, k, v) ==
    IF k \in DictKeys(d) THEN [i \in 1..Len(d) |-> IF d[i].canon = k THEN [canon |-> k, al |-> v] ELSE d[i]]
    ELSE Append(d, [canon |-> k, al |-> v])

\* the inner loop of normalize_alias_dict
RECURSIVE AliasVals(_, _, _)
AliasVals(al, key, vals) ==
    IF Len(al) = 0 THEN vals
    ELSE LET Step(s) == AliasVals(Tail(al), key, IF s # "" /\ s # key /\ s \notin Range(vals) THEN Append(vals, s) ELSE vals)
         IN Step(lower(strip(Head(al))))

\* the outer loop of normalize_alias_dict
RECURSIVE NormalizeEntries(_, _)
NormalizeEntries(raw, norm) ==
    IF Len(raw) = 0 THEN norm
    ELSE LET Step(key) ==
                 NormalizeEntries(Tail(raw), IF key = "" THEN norm ELSE DictSet(norm, key, AliasVals(Head(raw).al, key, <<>>)))
         IN Step(lower(strip(Head(raw).canon)))

normalize_alias_dict(raw) == NormalizeEntries(raw, <<>>)

\* the loop of merge_aliases over the entries of b
RECURSIVE MergeEntries(_, _)
MergeEntries(b, out) ==
    IF Len(b) = 0 THEN out
    ELSE LET Step(canon_l) ==
                 MergeEntries(Tail(b),
                              DictSet(out, canon_l,
                                      SortStrings(Range(DictGet(out, canon_l))
                                                  \cup {s \in {lower(strip(x)) : x \in Range(Head(b).al)} : s # "" /\ s # canon_l})))
         IN Step(lower(strip(Head(b).canon)))

\* out = dict(a), then the entries of b merged into it
merge_aliases(a, b) == MergeEntries(b, a)

\* one row of the table of common-subsequence lengths: cur[j + 1] is the
\* length for the prefix of a that ends with c and the first j characters of b
RECURSIVE LcsRow(_, _, _, _)
LcsRow(c, b, prev, cur) ==
    IF Len(cur) = Len(prev) THEN cur
    ELSE LcsRow(c, b, prev,
                Append(cur, IF SubSeq(b, Len(cur), Len(cur)) = c THEN prev[Len(cur)] + 1
                            ELSE Max(prev[Len(cur) + 1], cur[Len(cur)])))

RECURSIVE LcsRows(_, _, _)
LcsRows(a, b, prev) ==
    IF a = "" THEN prev[Len(b) + 1] ELSE LcsRows(Tail(a), b, LcsRow(SubSeq(a, 1, 1), b, prev, <<0>>))

\* the longest common subsequence of two strings
LcsLen(a, b) == LcsRows(a, b, [j \in 1..(Len(b) + 1) |-> 0])

RECURSIVE InsertSorted(_, _)
InsertSorted(x, s) ==
    IF Len(s) = 0 THEN <<x>>
    ELSE IF StrLess(Head(s), x) THEN <<Head(s)>> \o InsertSorted(x, Tail(s))
    ELSE <<x>> \o s

\* sorted(tokens)
RECURSIVE SortTokens(_)
SortTokens(s) == IF Len(s) = 0 THEN <<>> ELSE InsertSorted(Head(s), SortTokens(Tail(s)))

\* rapidfuzz fuzz.token_sort_ratio: the tokens of each string sorted and
\* joined, then 100 * 2 * LCS / (len + len), kept as the fraction m/t
token_sort_ratio(s1, s2) ==
    LET Ratio(a, b) ==
            IF Len(a) + Len(b) = 0 THEN [m |-> 100, t |-> 1]
            ELSE [m |-> 200 * LcsLen(a, b), t |-> Len(a) + Len(b)]
    IN Ratio(JoinWith(SortTokens(split(s1)), " "), JoinWith(SortTokens(split(s2)), " "))

\* every character outside [a-z0-9] replaced by a space
RECURSIVE ReplaceNonAlnum(_)
ReplaceNonAlnum(s) ==
    IF s = "" THEN ""
    ELSE (IF Head(s) \in AlnumSet THEN Head(s) ELSE " ") \o ReplaceNonAlnum(Tail(s))

\* rapidfuzz utils.default_process
default_process(s) == strip(ReplaceNonAlnum(lower(s)))

\* process.extractOne(query, choices, scorer=fuzz.token_sort_ratio): the first
\* choice of the highest score.  rapidfuzz before 3.0 passes the query and
\* the choices through default_process, rapidfuzz 3 compares them as they are.
extractOne(query, choices) ==
    LET Proc(x) == IF rapidfuzz_preprocess THEN default_process(x) ELSE x
        Scores(q) == [i \in 1..Len(choices) |-> token_sort_ratio(q, Proc(choices[i]))]
        Pick(sc) ==
            LET Best(i) == [choice |-> choices[i], score |-> sc[i]]
            IN Best(CHOOSE i \in 1..Len(sc) :
                        /\ \A j \in 1..Len(sc) : sc[j].m * sc[i].t <= sc[i].m * sc[j].t
                        /\ \A j \in 1..(i - 1) : sc[j].m * sc[i].t < sc[i].m * sc[j].t)
    IN Pick(Scores(Proc(query)))

\* int(threshold * 100) in float arithmetic: 0.57 * 100 and 0.58 * 100 fall
\* just below 57 and 58, every other threshold of 0.500 .. 1.000 truncates
\* to its hundredths
IntPercent(threshold) == IF threshold \in {570, 580} THEN (threshold \div 10) - 1 ELSE threshold \div 10

\* normalize_with_aliases without the test "s in aliases" ahead of the loop
normalize_with_aliases_alias_first(name, aliases, threshold) ==
    LET \* backmap[match]: the canonical name assigned last to the choice
        backmap(expanded, match) ==
            expanded[CHOOSE i \in 1..Len(expanded) :
                        /\ expanded[i].choice = match
                        /\ \A j \in (i + 1)..Len(expanded) : expanded[j].choice # match].canon
        Accept(expanded, best) ==
            IF best.score.m >= IntPercent(threshold) * best.score.t THEN backmap(expanded, best.choice) ELSE name
        Fuzzy(s, expanded) ==
            IF Len(expanded) = 0 THEN name
            ELSE Accept(expanded, extractOne(s, Column(expanded, "choice")))
        Alias(s, hits) ==
            IF hits # {} THEN aliases[CHOOSE i \in hits : \A j \in hits : i <= j].canon
            ELSE Fuzzy(s, Flatten([i \in 1..Len(aliases) |->
                                      <<[choice |-> aliases[i].canon, canon |-> aliases[i].canon]>>
                                      \o [j \in 1..Len(aliases[i].al) |-> [choice |-> aliases[i].al[j], canon |-> aliases[i].canon]]]))
        Exact(s) ==
            IF s = "" THEN name
            ELSE Alias(s, {i \in 1..Len(aliases) : s = aliases[i].canon \/ s \in Range(aliases[i].al)})
    IN IF name = "" THEN name ELSE Exact(lower(strip(name)))

normalize_with_aliases(name, aliases, threshold) ==
    LET \* backmap[match]: the canonical name assigned last to the choice
        backmap(expanded, match) ==
            expanded[CHOOSE i \in 1..Len(expanded) :
                        /\ expanded[i].choice = match
                        /\ \A j \in (i + 1)..Len(expanded) : expanded[j].choice # match].canon
        Accept(expanded, best) ==
            IF best.score.m >= IntPercent(threshold) * best.score.t THEN backmap(expanded, best.choice) ELSE name
        Fuzzy(s, expanded) ==
            IF Len(expanded) = 0 THEN name
            ELSE Accept(expanded, extractOne(s, Column(expanded, "choice")))
        Alias(s, hits) ==
            IF hits # {} THEN aliases[CHOOSE i \in hits : \A j \in hits : i <= j].canon
            ELSE Fuzzy(s, Flatten([i \in 1..Len(aliases) |->
                                      <<[choice |-> aliases[i].canon, canon |-> aliases[i].canon]>>
                                      \o [j \in 1..Len(aliases[i].al) |-> [choice |-> aliases[i].al[j], canon |-> aliases[i].canon]]]))
        Exact(s) ==
            IF s = "" THEN name
            ELSE IF s \in DictKeys(aliases) THEN s
            ELSE Alias(s, {i \in 1..Len(aliases) : s = aliases[i].canon \/ s \in Range(aliases[i].al)})
    IN IF name = "" THEN name ELSE Exact(lower(strip(name)))

\* df[plan_col] = df[plan_col].astype(str).apply(normalize_with_aliases) on a copy
apply_aliases_to_df(df, aliases, threshold) ==
    IF Len(df) = 0 THEN df
    ELSE [i \in 1..Len(df) |-> [df[i] EXCEPT !.plan = normalize_with_aliases(df[i].plan, aliases, threshold)]]

(***************************************************************************)
(* app.py: normalization and the totals engine.  Money is held in cents;   *)
(* the amounts the inputs range over are ones for which the float          *)
(* arithmetic of the code gives exactly the results computed here.         *)
(***************************************************************************)
UpperOf == [c \in CharsOf(LowerChars) |-> LET k == CHOOSE i \in 1..Len(LowerChars) : SubSeq(LowerChars, i, i) = c IN SubSeq(UpperChars, k, k)]

LetterSet == CharsOf(LowerChars) \cup CharsOf(UpperChars)

\* str.title(): a letter that follows no letter in upper case, every other in lower case
RECURSIVE TitleFrom(_, _)
TitleFrom(s, afterLetter) ==
    IF s = "" THEN ""
    ELSE IF Head(s) \notin LetterSet THEN Head(s) \o TitleFrom(Tail(s), FALSE)
    ELSE (IF afterLetter THEN lower(Head(s))
          ELSE IF Head(s) \in UpperSet THEN Head(s) ELSE UpperOf[Head(s)]) \o TitleFrom(Tail(s), TRUE)

title(s) == TitleFrom(s, FALSE)

\* str.zfill(width) of a string of digits
RECURSIVE zfill(_, _)
zfill(s, width) == IF Len(s) >= width THEN s ELSE zfill("0" \o s, width)

\* _clean_money of a numeric cell: a missing cell stays missing, a number is
\* printed and parsed back to itself
_clean_money(x) == IF x = NA THEN NA ELSE x

TextFields == {"ssn", "first", "last", "plan"}

\* standardize_df: on a copy, the text cells trimmed, then the columns found
\* by their lowercased header treated: SSN digits padded to nine, names
\* title-cased, plan lowercased, money cleaned
standardize_df(df) ==
    LET lowered == {lower(df.cols[i].name) : i \in 1..Len(df.cols)}
        Kind(n) ==
            IF n = "ssn" THEN "ssn"
            ELSE IF n = "plan name" \/ (n = "plan" /\ "plan name" \notin lowered) THEN "plan"
            ELSE IF n = "first name" \/ n = "last name" THEN "name"
            ELSE IF \/ n = "employee cost"
                    \/ (n = "employee amount" /\ "employee cost" \notin lowered)
                    \/ (n = "ee amount" /\ {"employee cost", "employee amount"} \cap lowered = {}) THEN "money"
            ELSE IF \/ n = "employer cost"
                    \/ (n = "employer amount" /\ "employer cost" \notin lowered)
                    \/ (n = "er amount" /\ {"employer cost", "employer amount"} \cap lowered = {}) THEN "money"
            ELSE "other"
        Treated(kind, v) ==
            IF kind = "ssn" THEN zfill(digits_only(v), 9)
            ELSE IF kind = "name" THEN title(v)
            ELSE IF kind = "plan" THEN lower(v)
            ELSE IF kind = "money" THEN _clean_money(v)
            ELSE v
        Cell(c, x) == Treated(Kind(lower(c.name)), IF c.field \in TextFields THEN strip(x) ELSE x)
        ColOf(f) == df.cols[CHOOSE i \in 1..Len(df.cols) : df.cols[i].field = f]
        At(r, f) == IF \E i \in 1..Len(df.cols) : df.cols[i].field = f THEN Cell(ColOf(f), r[f]) ELSE r[f]
        Row(r) == [ssn |-> At(r, "ssn"), first |-> At(r, "first"), last |-> At(r, "last"),
                   plan |-> At(r, "plan"), ee |-> At(r, "ee"), er |-> At(r, "er")]
    IN IF Len(df.rows) = 0 \/ Len(df.cols) = 0 THEN df
       ELSE [cols |-> df.cols, rows |-> [i \in 1..Len(df.rows) |-> Row(df.rows[i])]]

CARRIER_TOKENS == {"sun", "life", "metlife", "voya", "unum", "guardian", "lincoln", "principal", "anthem"}

NotCarrierToken(t) == t \notin CARRIER_TOKENS

\* step 1 of the run: the carrier tokens removed from the plan names
strip_carrier_prefixes(df) ==
    IF Len(df) = 0 THEN df
    ELSE [i \in 1..Len(df) |->
             [df[i] EXCEPT !.plan = JoinWith(SelectSeq(split(lower(strip(df[i].plan))), NotCarrierToken), " ")]]

STRONG_DEFAULTS ==
    <<[canon |-> "short term disability",
       al |-> <<"std", "voluntary short term disability", "short-term disability", "short term dis", "std voluntary", "voluntary std">>],
      [canon |-> "long term disability",
       al |-> <<"ltd", "voluntary long term disability", "long-term disability", "long term dis", "ltd voluntary", "voluntary ltd">>],
      [canon |-> "ad&d",
       al |-> <<"add", "accidental death and dismemberment", "voluntary ad&d", "voluntary add", "vol add", "voluntary">>],
      [canon |-> "accident", al |-> <<"accident plan", "accident insurance", "acc", "voluntary accident">>],
      [canon |-> "hospital indemnity",
       al |-> <<"hospital indemnity plan", "hospital", "hi", "voluntary hospital indemnity", "hospital plan">>],
      [canon |-> "critical illness", al |-> <<"critical illness plan", "critical", "ci", "voluntary critical illness">>],
      [canon |-> "medical", al |-> <<"health", "med", "medical plan", "health plan">>],
      [canon |-> "dental", al |-> <<"dent", "dntl", "dental plan">>],
      [canon |-> "vision", al |-> <<"vis", "vision plan", "vba">>],
      [canon |-> "life",
       al |-> <<"basic life", "group life", "life insurance", "voluntary life", "vol life", "employee life", "emp life">>]>>

\* st.session_state["aliases"], no PLAN_ALIASES in the secrets
SessionAliases == merge_aliases(merge_aliases(DEFAULT_ALIASES, STRONG_DEFAULTS), normalize_alias_dict(<<>>))

\* Series.round(): to the nearest integer, a half to the even neighbour (n >= 0)
RoundHalfEven(n, d) ==
    IF 2 * (n % d) < d THEN n \div d
    ELSE IF 2 * (n % d) > d THEN (n \div d) + 1
    ELSE IF (n \div d) % 2 = 0 THEN n \div d ELSE (n \div d) + 1

\* one money cell of normalize_amounts, in cents
normalize_cell(x, tolerance_cents, blank_is_zero) ==
    LET Quantize(v, step) == IF step > 0 THEN RoundHalfEven(v, step) * step ELSE v
    IN Quantize(IF x = NA THEN (IF blank_is_zero THEN 0 ELSE 0) ELSE x, Max(1, tolerance_cents))

normalize_amounts(df, tolerance_cents, blank_is_zero) ==
    IF Len(df) = 0 THEN df
    ELSE [i \in 1..Len(df) |->
             [df[i] EXCEPT !.ee = normalize_cell(df[i].ee, tolerance_cents, blank_is_zero),
                           !.er = normalize_cell(df[i].er, tolerance_cents, blank_is_zero)]]

\* _drop: df.drop_duplicates().reset_index(drop=True)
drop_exact_dupes(df) == DropDuplicatesBy(df, df, {})

PairLess(x, y) == StrLess(x[1], y[1]) \/ (x[1] = y[1] /\ StrLess(x[2], y[2]))

\* the (SSN, plan) pairs in the order groupby and merge put them
RECURSIVE SortPairs(_)
SortPairs(S) ==
    IF S = {} THEN <<>>
    ELSE LET Rest(m) == <<m>> \o SortPairs(S \ {m})
         IN Rest(CHOOSE x \in S : \A y \in S : ~PairLess(y, x))

KeysOf(df) == {<<df[i].ssn, df[i].plan>> : i \in 1..Len(df)}

\* totals_by_key_all keeping the names of the last row of each key
totals_by_key_all_last_names(df) ==
    IF Len(df) = 0 THEN df
    ELSE LET Group(g) == [ssn |-> g[1].ssn, plan |-> g[1].plan,
                          ee |-> SumSeq(Column(g, "ee")), er |-> SumSeq(Column(g, "er")),
                          first |-> g[Len(g)].first, last |-> g[Len(g)].last]
             Agg(keys) == [i \in 1..Len(keys) |->
                              Group(SelectSeq(df, LAMBDA r : r.ssn = keys[i][1] /\ r.plan = keys[i][2]))]
         IN Agg(SortPairs(KeysOf(df)))

\* df.groupby(["SSN", "Plan Name"]).agg(sum of the costs, first of the names)
totals_by_key_all(df) ==
    IF Len(df) = 0 THEN df
    ELSE LET Group(g) == [ssn |-> g[1].ssn, plan |-> g[1].plan,
                          ee |-> SumSeq(Column(g, "ee")), er |-> SumSeq(Column(g, "er")),
                          first |-> g[1].first, last |-> g[1].last]
             Agg(keys) == [i \in 1..Len(keys) |->
                              Group(SelectSeq(df, LAMBDA r : r.ssn = keys[i][1] /\ r.plan = keys[i][2]))]
         IN Agg(SortPairs(KeysOf(df)))

FREQUENCY_FACTORS == <<2, 4, 12, 24, 26, 52>>

\* int(round(float(a) * 100)) with NaN read as 0
cents_of(a) == IF a = NA THEN 0 ELSE a

_tol_ok(a, b, cents) == Abs(cents_of(a) - cents_of(b)) <= Max(0, cents)

\* the first factor under which the two amounts agree within slack, 0 if none
FirstFactor(aa, bb, slack) ==
    LET Least(hits) == IF hits = {} THEN 0 ELSE FREQUENCY_FACTORS[CHOOSE i \in hits : \A j \in hits : i <= j]
    IN Least({i \in 1..Len(FREQUENCY_FACTORS) :
                 \/ Abs(aa - bb * FREQUENCY_FACTORS[i]) <= slack
                 \/ Abs(bb - aa * FREQUENCY_FACTORS[i]) <= slack})

\* _freq_ok without the loop over FREQUENCY_FACTORS: the tolerance test alone
_freq_ok_tolerance_only(a, b, cents, extra_cents) ==
    IF _tol_ok(a, b, cents) THEN [ok |-> TRUE, f |-> 1] ELSE [ok |-> FALSE, f |-> 0]

\* (ok, f) with f = 0 standing for None
_freq_ok(a, b, cents, extra_cents) ==
    IF _tol_ok(a, b, cents) THEN [ok |-> TRUE, f |-> 1]
    ELSE LET Found(f) == [ok |-> f # 0, f |-> f]
         IN Found(FirstFactor(cents_of(a), cents_of(b), Max(0, cents) + Max(0, extra_cents)))

\* x or y on name cells: NaN is truthy, the empty string is not
PyOr(x, y) == IF x = "" THEN y ELSE x

\* pd.merge(A, B, on=["SSN", "Plan Name"], how="outer")
MergeOnSsnPlan(A, B) ==
    LET Tag(k, rows) == [i \in 1..Len(rows) |-> [SSN |-> k[1], Plan |-> k[2], a |-> rows[i].a, b |-> rows[i].b]]
        OfKey(k) == Tag(k, JoinRows(SelectSeq(A, LAMBDA r : r.ssn = k[1] /\ r.plan = k[2]),
                                    SelectSeq(B, LAMBDA r : r.ssn = k[1] /\ r.plan = k[2])))
        Join(keys) == Flatten([i \in 1..Len(keys) |-> OfKey(keys[i])])
    IN Join(SortPairs(KeysOf(A) \cup KeysOf(B)))

BaseCols == <<"Error Type", "SSN", "First Name", "Last Name", "Plan Name">>

\* the discrepancy dicts of one merged row of reconcile_totals_two, each with
\* the list of its keys; res = 1 when the row counts as frequency-resolved
TotalsRowErrors(r, a_name, b_name, cents) ==
    LET base(t) == [type |-> t, ssn |-> r.SSN, first |-> PyOr(r.a.first, r.b.first),
                    last |-> PyOr(r.a.last, r.b.last), plan |-> r.Plan,
                    ee |-> NoCost, er |-> NoCost, sim |-> NA]
        Missing(name) == [errs |-> <<[row |-> base("Missing in " \o name), cols |-> BaseCols]>>, res |-> 0]
        eeRow == [row |-> [base("Employee Amount Mismatch") EXCEPT !.ee = CostCells(a_name, r.a.ee, b_name, r.b.ee)],
                  cols |-> BaseCols \o <<EeCol(a_name), EeCol(b_name)>>]
        erRow == [row |-> [base("Employer Amount Mismatch") EXCEPT !.er = CostCells(a_name, r.a.er, b_name, r.b.er)],
                  cols |-> BaseCols \o <<ErCol(a_name), ErCol(b_name)>>]
        Compare(ee, er) ==
            IF ee.ok /\ er.ok
            THEN [errs |-> <<>>, res |-> IF (ee.f # 0 /\ ee.f # 1) \/ (er.f # 0 /\ er.f # 1) THEN 1 ELSE 0]
            ELSE [errs |-> (IF ~ee.ok THEN <<eeRow>> ELSE <<>>) \o (IF ~er.ok THEN <<erRow>> ELSE <<>>), res |-> 0]
        Present(in_a, in_b) ==
            IF in_a /\ ~in_b THEN Missing(b_name)
            ELSE IF in_b /\ ~in_a THEN Missing(a_name)
            ELSE Compare(_freq_ok(r.a.ee, r.b.ee, cents, 10), _freq_ok(r.a.er, r.b.er, cents, 10))
    IN Present(notnum(r.a.ee) \/ notnum(r.a.er), notnum(r.b.ee) \/ notnum(r.b.er))

\* errors_df.groupby("Error Type").size(): one row per type, the types sorted
groupby_size(rows) ==
    LET Sized(types) == [i \in 1..Len(types) |-> [type |-> types[i], count |-> CountType(rows, types[i])]]
    IN Sized(SortStrings({rows[i].type : i \in 1..Len(rows)}))

\* the summary the application builds from a discrepancy table
AppSummary(errs) ==
    IF IsEmpty(errs) THEN <<TotalRow(0)>>
    ELSE WithTotal(groupby_size(errs.rows))

reconcile_totals_two(a, b, a_name, b_name, cents) ==
    LET Return(errs, compared, resolved) ==
            [errors |-> errs, summary |-> AppSummary(errs), compared |-> compared, freq_resolved |-> resolved]
        \* pd.DataFrame(errors)
        Build(errors) == Frame(FirstSeen(Flatten([i \in 1..Len(errors) |-> errors[i].cols]), {}),
                               [i \in 1..Len(errors) |-> errors[i].row])
        Collect(per) == Return(Build(Flatten([i \in 1..Len(per) |-> per[i].errs])), Len(per), SumSeq(Column(per, "res")))
        Loop(merged) == Collect([i \in 1..Len(merged) |-> TotalsRowErrors(merged[i], a_name, b_name, cents)])
    IN Loop(MergeOnSsnPlan(totals_by_key_all(a), totals_by_key_all(b)))

NotEmpty(df) == ~IsEmpty(df)

reconcile_totals_three(p, c, b, cents) ==
    LET T(name) == IF name = "Payroll" THEN p ELSE IF name = "Carrier" THEN c ELSE b
        Return(errs, resolved) ==
            [errors |-> errs, summary |-> AppSummary(errs), compared |-> 0, freq_resolved |-> resolved]
        Cat(parts) == IF Len(parts) # 0 THEN ConcatFrames(parts) ELSE Frame(<<"Error Type">>, <<>>)
        Gather(rs) == Return(Cat(SelectSeq([i \in 1..3 |-> rs[i].errors], NotEmpty)),
                             rs[1].freq_resolved + rs[2].freq_resolved + rs[3].freq_resolved)
    IN Gather([i \in 1..3 |->
                  reconcile_totals_two(T(PairList[i][1]), T(PairList[i][2]), PairList[i][1], PairList[i][2], cents)])

(***************************************************************************)
(* app.py: drilldown and the two suppression passes                        *)
(***************************************************************************)
\* sub in s
Contains(s, sub) == \E i \in 1..(Len(s) - Len(sub) + 1) : SubSeq(s, i, i + Len(sub) - 1) = sub

\* Series.str.contains(pat, case=False)
ContainsNoCase(s, pat) == Contains(lower(s), lower(pat))

drilldown_row_level_for_keys(p, c, b, keys, threshold) ==
    IF keys = {} THEN NoFrame
    ELSE LET _filter(df) == SelectSeq(df, LAMBDA r : <<r.ssn, r.plan>> \in keys)
             Cat(parts) == IF Len(parts) # 0 THEN ConcatFrames(parts) ELSE NoFrame
             Pairwise(p2, c2, b2) ==
                 LET T(name) == IF name = "Payroll" THEN p2 ELSE IF name = "Carrier" THEN c2 ELSE b2
                     Part(x, y, xn, yn) ==
                         IF Len(x) # 0 /\ Len(y) # 0 THEN <<reconcile_two(x, y, xn, yn, threshold).errors>> ELSE <<>>
                 IN Cat(Flatten([i \in 1..3 |-> Part(T(PairList[i][1]), T(PairList[i][2]), PairList[i][1], PairList[i][2])]))
         IN Pairwise(_filter(p), _filter(c), _filter(b))

\* the threshold the run passes to the drilldown (0.90), in thousandths
DrilldownThreshold == 900

\* step 7 of the run: aggregated amount mismatches replaced by row-level detail
DrilldownStep(errs, summary, p, c, b) ==
    LET Unchanged == [errors |-> errs, summary |-> summary]
        mask(r) == ContainsNoCase(r.type, "Amount Mismatch")
        Resum(out) == [errors |-> out, summary |-> IF ~IsEmpty(out) THEN AppSummary(out) ELSE summary]
        Replace(keys, row_detail) ==
            IF IsEmpty(row_detail) THEN Unchanged
            ELSE Resum(ConcatFrames(<<Frame(errs.cols, SelectSeq(errs.rows, LAMBDA r : ~(mask(r) /\ <<r.ssn, r.plan>> \in keys))),
                                      row_detail>>))
        WithKeys(keys) ==
            IF keys = {} THEN Unchanged
            ELSE Replace(keys, drilldown_row_level_for_keys(p, c, b, keys, DrilldownThreshold))
    IN IF IsEmpty(errs) THEN Unchanged
       ELSE WithKeys(KeysOf(SelectSeq(errs.rows, mask)))

\* the source named by an "Employee Cost (<source>)" column
EeSource(col) == CHOOSE s \in Sources : EeCol(s) = col

\* abs(a - b) <= slack, directly or under a pay-frequency factor
TotalsMatch(a, b, slack) ==
    \/ Abs(a - b) <= slack
    \/ \E i \in 1..Len(FREQUENCY_FACTORS) :
          \/ Abs(a - b * FREQUENCY_FACTORS[i]) <= slack
          \/ Abs(b - a * FREQUENCY_FACTORS[i]) <= slack

NeedCols == {"Error Type", "Plan Name", "SSN"}

\* postfilter_row_detail_totals returning the number of keys it dropped
postfilter_row_detail_totals_counts_keys(errs, cents, extra_cents) ==
    LET Unchanged == [df |-> errs, dropped |-> 0]
        mask(r) == ContainsNoCase(r.type, "Employee Amount Mismatch")
        Filter(drop_keys) ==
            IF drop_keys = {} THEN Unchanged
            ELSE [df |-> Frame(errs.cols, SelectSeq(errs.rows, LAMBDA r : ~mask(r) \/ <<r.ssn, r.plan>> \notin drop_keys)),
                  dropped |-> Cardinality(drop_keys)]
        Sums(sub, a_col, b_col) ==
            LET SumOf(g, col) == SumSeq([i \in 1..Len(g) |-> cents_of(g[i].ee[col])])
                Match(g) == TotalsMatch(SumOf(g, a_col), SumOf(g, b_col), Max(0, cents) + Max(0, extra_cents))
            IN Filter({k \in KeysOf(sub) : Match(SelectSeq(sub, LAMBDA r : r.ssn = k[1] /\ r.plan = k[2]))})
        Cols(sub, ee_cols) ==
            IF Len(ee_cols) < 2 THEN Unchanged
            ELSE Sums(sub, EeSource(ee_cols[1]), EeSource(ee_cols[2]))
        Masked(sub) ==
            IF Len(sub) = 0 THEN Unchanged
            ELSE Cols(sub, SelectSeq(errs.cols, LAMBDA c : Contains(lower(c), "employee cost (")))
    IN IF IsEmpty(errs) THEN Unchanged
       ELSE IF ~(NeedCols \subseteq Range(errs.cols)) THEN Unchanged
       ELSE Masked(SelectSeq(errs.rows, mask))

postfilter_row_detail_totals(errs, cents, extra_cents) ==
    LET Unchanged == [df |-> errs, dropped |-> 0]
        mask(r) == ContainsNoCase(r.type, "Employee Amount Mismatch")
        \* the loop over the rows: a masked row whose key is in drop_keys is
        \* counted, every other row is kept
        Filter(drop_keys) ==
            IF drop_keys = {} THEN Unchanged
            ELSE [df |-> Frame(errs.cols, SelectSeq(errs.rows, LAMBDA r : ~mask(r) \/ <<r.ssn, r.plan>> \notin drop_keys)),
                  dropped |-> Len(SelectSeq(errs.rows, LAMBDA r : mask(r) /\ <<r.ssn, r.plan>> \in drop_keys))]
        Sums(sub, a_col, b_col) ==
            LET SumOf(g, col) == SumSeq([i \in 1..Len(g) |-> cents_of(g[i].ee[col])])
                Match(g) == TotalsMatch(SumOf(g, a_col), SumOf(g, b_col), Max(0, cents) + Max(0, extra_cents))
            IN Filter({k \in KeysOf(sub) : Match(SelectSeq(sub, LAMBDA r : r.ssn = k[1] /\ r.plan = k[2]))})
        Cols(sub, ee_cols) ==
            IF Len(ee_cols) < 2 THEN Unchanged
            ELSE Sums(sub, EeSource(ee_cols[1]), EeSource(ee_cols[2]))
        Masked(sub) ==
            IF Len(sub) = 0 THEN Unchanged
            ELSE Cols(sub, SelectSeq(errs.cols, LAMBDA c : Contains(lower(c), "employee cost (")))
    IN IF IsEmpty(errs) THEN Unchanged
       ELSE IF ~(NeedCols \subseteq Range(errs.cols)) THEN Unchanged
       ELSE Masked(SelectSeq(errs.rows, mask))

_norm_plan(s) == CollapseSpaces(strip(SubNonAlnum(lower(s), FALSE)), FALSE)

_totals_match_with_freq(a_total, b_total, cents, extra_cents) ==
    TotalsMatch(cents_of(a_total), cents_of(b_total), Max(0, cents) + Max(0, extra_cents))

postfilter_keys_matching_by_frequency(errs, p, b, cents, extra_cents) ==
    LET Unchanged == [df |-> errs, dropped |-> 0]
        mask(r) == ContainsNoCase(r.type, "Amount Mismatch")
        \* the loop over the rows: an "Amount Mismatch" row whose key is in
        \* resolvable_keys is counted, every other row is kept
        Filter(resolvable_keys) ==
            IF resolvable_keys = {} THEN Unchanged
            ELSE [df |-> Frame(errs.cols,
                               SelectSeq(errs.rows, LAMBDA r : \/ ~Contains(r.type, "Amount Mismatch")
                                                               \/ <<r.ssn, _norm_plan(r.plan)>> \notin resolvable_keys)),
                  dropped |-> Len(SelectSeq(errs.rows, LAMBDA r : /\ Contains(r.type, "Amount Mismatch")
                                                                   /\ <<r.ssn, _norm_plan(r.plan)>> \in resolvable_keys))]
        \* _totals(df) at one (SSN, NormPlan): the sum, NaN when the table has no such group
        Total(g, field) == IF Len(g) = 0 THEN NA ELSE SumSeq(Column(g, field))
        Ok(gp, gb) == \/ _totals_match_with_freq(Total(gp, "ee"), Total(gb, "ee"), cents, extra_cents)
                      \/ _totals_match_with_freq(Total(gp, "er"), Total(gb, "er"), cents, extra_cents)
        Resolve(mism) ==
            Filter({k \in mism : Ok(SelectSeq(p, LAMBDA r : r.ssn = k[1] /\ _norm_plan(r.plan) = k[2]),
                                    SelectSeq(b, LAMBDA r : r.ssn = k[1] /\ _norm_plan(r.plan) = k[2]))})
        Masked(sub) ==
            IF Len(sub) = 0 THEN Unchanged
            ELSE Resolve({<<sub[i].ssn, _norm_plan(sub[i].plan)>> : i \in 1..Len(sub)})
    IN IF IsEmpty(errs) THEN Unchanged
       ELSE IF ~(NeedCols \subseteq Range(errs.cols)) THEN Unchanged
       ELSE Masked(SelectSeq(errs.rows, mask))

(***************************************************************************)
(* Inputs: the uploaded tables as the run sees them after loading and       *)
(* standardize_df: SSN of nine digits, plan names lowercase, names         *)
(* title-cased, money parsed.                                              *)
(***************************************************************************)
SSNs == {"000000001"}
Plans == {"dental", "vision"}
FirstNames == {"Ann"}
LastNames == {"Lee"}
\* (employee cost, employer cost) in cents
Costs == {<<1200, 600>>, <<1201, 600>>, <<1202, 600>>, <<1203, 600>>, <<100, 50>>, <<1300, 0>>}

Rows == {[ssn |-> s, first |-> f, last |-> l, plan |-> p, ee |-> c[1], er |-> c[2]] :
            s \in SSNs, f \in FirstNames, l \in LastNames, p \in Plans, c \in Costs}

\* plan_match_threshold, in thousandths (the slider runs from 0.5 to 1.0)
Thresholds == {900, 1000}

Pairs == Range(PairList)

\* the call whose result the state holds: the function, its two sources, its threshold
NoCall == [fn |-> "none", a |-> "", b |-> "", thr |-> 0]

\* what a call on the caller's tables left: nothing yet
NoRet == [fn |-> "none", a |-> "", b |-> "", raised |-> None, errors |-> NoFrame, summary |-> <<>>, out |-> <<>>]

\* no call on tables held by a caller is under way
TablesIdle ==
    /\ tab0 = [s \in Sources |-> NoFrame]
    /\ tab = [s \in Sources |-> NoFrame]
    /\ ret = NoRet
    /\ tpc = "idle"

\* no call of aliases.py is under way; the plan names of the run are canonical
\* names, which the rapidfuzz branch of normalize_with_aliases never sees
AliasIdle ==
    /\ alias_a0 = <<>> /\ alias_b0 = <<>> /\ alias_a = <<>> /\ alias_b = <<>>
    /\ alias_table = <<>> /\ alias_fn = "none"
    /\ alias_name = "" /\ alias_thr = 0 /\ alias_res = ""
    /\ alias_pc = "idle"
    /\ rapidfuzz_preprocess = FALSE

Init ==
    /\ \E np \in 0..MaxRows, nc \in 0..MaxRows, nb \in 0..MaxRows :
          /\ np + nc + nb <= MaxRows
          /\ payroll \in [1..np -> Rows]
          /\ carrier \in [1..nc -> Rows]
          /\ benadmin \in [1..nb -> Rows]
    /\ tol = 2
    /\ pc = "start"
    /\ p_df = payroll /\ c_df = carrier /\ b_df = benadmin
    /\ errors_df = NoFrame
    /\ pre_df = NoFrame
    /\ summary_df = <<>>
    /\ freq_resolved = 0
    /\ dropped_rd = 0
    /\ dropped_freq = 0
    /\ call = NoCall
    /\ AliasIdle
    /\ TablesIdle

Uploaded(name) == IF name = "Payroll" THEN payroll ELSE IF name = "Carrier" THEN carrier ELSE benadmin

(***************************************************************************)
(* The engine called directly (reconcile.py).                              *)
(***************************************************************************)
CallReconcileTwo ==
    /\ pc = "start"
    /\ \E pr \in Pairs, thr \in Thresholds :
          /\ LET Assign(res) == errors_df' = res.errors /\ summary_df' = res.summary
             IN Assign(reconcile_two(Uploaded(pr[1]), Uploaded(pr[2]), pr[1], pr[2], thr))
          /\ call' = [fn |-> "reconcile_two", a |-> pr[1], b |-> pr[2], thr |-> thr]
    /\ pc' = "returned"
    /\ UNCHANGED <<aliasVars, tableVars, payroll, carrier, benadmin, tol, p_df, c_df, b_df, freq_resolved, dropped_rd, dropped_freq, pre_df>>

CallReconcileThree ==
    /\ pc = "start"
    /\ \E thr \in Thresholds :
          /\ LET Assign(res) == errors_df' = res.errors /\ summary_df' = res.summary
             IN Assign(reconcile_three(payroll, carrier, benadmin, thr))
          /\ call' = [fn |-> "reconcile_three", a |-> "", b |-> "", thr |-> thr]
    /\ pc' = "returned"
    /\ UNCHANGED <<aliasVars, tableVars, payroll, carrier, benadmin, tol, p_df, c_df, b_df, freq_resolved, dropped_rd, dropped_freq, pre_df>>

(***************************************************************************)
(* The run of the application (app.py, "Run Reconciliation").              *)
(***************************************************************************)
\* steps 1 to 4 of the run on one table: carrier tokens stripped, aliases
\* applied, amounts normalized with the chosen tolerance, exact duplicates dropped
Prepared(df, t, blank_is_zero) ==
    drop_exact_dupes(normalize_amounts(apply_aliases_to_df(strip_carrier_prefixes(df), SessionAliases, 900), t, blank_is_zero))

NormalizeStep ==
    /\ pc = "start"
    /\ \E t \in 0..MaxTol, blank_is_zero \in BOOLEAN :
          /\ tol' = t
          /\ p_df' = Prepared(payroll, t, blank_is_zero)
          /\ c_df' = Prepared(carrier, t, blank_is_zero)
          /\ b_df' = Prepared(benadmin, t, blank_is_zero)
    /\ pc' = "totals"
    /\ call' = [fn |-> "run", a |-> "", b |-> "", thr |-> DrilldownThreshold]
    /\ UNCHANGED <<aliasVars, tableVars, payroll, carrier, benadmin, errors_df, summary_df, freq_resolved, dropped_rd, dropped_freq, pre_df>>

\* step 6: which comparison the run makes of the tables that were uploaded
TotalsMode(p, c, b) ==
    IF Len(p) # 0 /\ Len(c) # 0 /\ Len(b) # 0 THEN [fn |-> "reconcile_totals_three", a |-> "", b |-> "", thr |-> DrilldownThreshold]
    ELSE IF Len(p) # 0 /\ Len(c) # 0 THEN [fn |-> "reconcile_totals_two", a |-> "Payroll", b |-> "Carrier", thr |-> DrilldownThreshold]
    ELSE IF Len(p) # 0 /\ Len(b) # 0 THEN [fn |-> "reconcile_totals_two", a |-> "Payroll", b |-> "BenAdmin", thr |-> DrilldownThreshold]
    ELSE IF Len(c) # 0 /\ Len(b) # 0 THEN [fn |-> "reconcile_totals_two", a |-> "Carrier", b |-> "BenAdmin", thr |-> DrilldownThreshold]
    ELSE [fn |-> "stop", a |-> "", b |-> "", thr |-> DrilldownThreshold]

TotalsResult(p, c, b, cents) ==
    LET W(name) == IF name = "Payroll" THEN p ELSE IF name = "Carrier" THEN c ELSE b
        Run(m) == IF m.fn = "reconcile_totals_three" THEN reconcile_totals_three(p, c, b, cents)
                  ELSE reconcile_totals_two(W(m.a), W(m.b), m.a, m.b, cents)
    IN Run(TotalsMode(p, c, b))

TotalsStep ==
    /\ pc = "totals"
    /\ TotalsMode(p_df, c_df, b_df).fn # "stop"
    /\ LET Assign(res) == /\ errors_df' = res.errors
                          /\ summary_df' = res.summary
                          /\ freq_resolved' = res.freq_resolved
       IN Assign(TotalsResult(p_df, c_df, b_df, tol))
    /\ call' = TotalsMode(p_df, c_df, b_df)
    /\ pc' = "drilldown"
    /\ UNCHANGED <<aliasVars, tableVars, payroll, carrier, benadmin, tol, p_df, c_df, b_df, dropped_rd, dropped_freq, pre_df>>

\* fewer than two tables uploaded: a warning, and the run stops
TotalsStop ==
    /\ pc = "totals"
    /\ TotalsMode(p_df, c_df, b_df).fn = "stop"
    /\ pc' = "stopped"
    /\ UNCHANGED <<aliasVars, tableVars, payroll, carrier, benadmin, tol, p_df, c_df, b_df, errors_df, summary_df, freq_resolved, dropped_rd, dropped_freq, pre_df, call>>

DrilldownRun ==
    /\ pc = "drilldown"
    /\ LET Assign(res) == errors_df' = res.errors /\ summary_df' = res.summary
       IN Assign(DrilldownStep(errors_df, summary_df, p_df, c_df, b_df))
    /\ pre_df' = errors_df
    /\ pc' = "cleanup"
    /\ UNCHANGED <<aliasVars, tableVars, payroll, carrier, benadmin, tol, p_df, c_df, b_df, freq_resolved, dropped_rd, dropped_freq, call>>

\* summary_df after a suppression pass (run, lines 971-973 and 977-980)
SummaryAfterPass(res, summary) ==
    IF res.dropped # 0 /\ ~IsEmpty(res.df) THEN AppSummary(res.df) ELSE summary

\* smart_cleanup on: the first suppression pass
PostfilterRowDetail ==
    /\ pc = "cleanup"
    /\ LET Assign(res) == /\ errors_df' = res.df
                          /\ dropped_rd' = res.dropped
                          /\ summary_df' = SummaryAfterPass(res, summary_df)
       IN Assign(postfilter_row_detail_totals(errors_df, tol, 20))
    /\ pre_df' = errors_df
    /\ pc' = "cleanup2"
    /\ UNCHANGED <<aliasVars, tableVars, payroll, carrier, benadmin, tol, p_df, c_df, b_df, freq_resolved, dropped_freq, call>>

\* the second suppression pass, always given the Payroll and BenAdmin tables
PostfilterFrequency ==
    /\ pc = "cleanup2"
    /\ LET Assign(res) == /\ errors_df' = res.df
                          /\ dropped_freq' = res.dropped
                          /\ summary_df' = SummaryAfterPass(res, summary_df)
       IN Assign(postfilter_keys_matching_by_frequency(errors_df, p_df, b_df, tol, 30))
    /\ pre_df' = errors_df
    /\ pc' = "done"
    /\ UNCHANGED <<aliasVars, tableVars, payroll, carrier, benadmin, tol, p_df, c_df, b_df, freq_resolved, dropped_rd, call>>

\* smart_cleanup off: the raw result is shown
SmartCleanupOff ==
    /\ pc = "cleanup"
    /\ pc' = "raw"
    /\ UNCHANGED <<aliasVars, tableVars, payroll, carrier, benadmin, tol, p_df, c_df, b_df, errors_df, summary_df, freq_resolved, dropped_rd, dropped_freq, pre_df, call>>

Next ==
    \/ CallReconcileTwo
    \/ CallReconcileThree
    \/ NormalizeStep
    \/ TotalsStep
    \/ TotalsStop
    \/ DrilldownRun
    \/ PostfilterRowDetail
    \/ PostfilterFrequency
    \/ SmartCleanupOff

Spec == Init /\ [][Next]_vars

(***************************************************************************)
(* The run on uploads in which one key has several lines for several       *)
(* people: Payroll and Carrier only, up to the drilldown.                  *)
(***************************************************************************)
DrillRows ==
    {[ssn |-> "000000001", first |-> f, last |-> "Lee", plan |-> "dental", ee |-> 1200, er |-> 600] : f \in {"Ann", "Bob", "Cat"}}
    \cup {[ssn |-> "000000001", first |-> "Ann", last |-> "Lee", plan |-> "vision", ee |-> c[1], er |-> c[2]] :
              c \in {<<1200, 600>>, <<1300, 0>>}}

\* the largest Payroll and Carrier uploads of these runs
MaxDrillPayroll == 4
MaxDrillCarrier == 2

InitDrill ==
    /\ \E np \in 0..MaxDrillPayroll, nc \in 0..MaxDrillCarrier :
          /\ payroll \in [1..np -> DrillRows]
          /\ carrier \in [1..nc -> DrillRows]
    /\ benadmin = <<>>
    /\ tol = 2
    /\ pc = "start"
    /\ p_df = payroll /\ c_df = carrier /\ b_df = benadmin
    /\ errors_df = NoFrame
    /\ pre_df = NoFrame
    /\ summary_df = <<>>
    /\ freq_resolved = 0
    /\ dropped_rd = 0
    /\ dropped_freq = 0
    /\ call = NoCall
    /\ AliasIdle
    /\ TablesIdle

NextDrill ==
    \/ NormalizeStep
    \/ TotalsStep
    \/ TotalsStop
    \/ DrilldownRun

SpecDrill == InitDrill /\ [][NextDrill]_vars

(***************************************************************************)
(* The alias helpers called directly (aliases.py).                         *)
(***************************************************************************)
\* canonical names and alias lists as a caller may write them
RawCanons == {"Dental", "dental", "teeth"}
RawLists == {<<>>, <<"dent">>, <<"Dent", "dent ">>, <<"dental", "dnt">>}
RawEntries == {[canon |-> c, al |-> l] : c \in RawCanons, l \in RawLists}

\* the largest number of entries of the first and of the second alias table
MaxEntriesA == 2
MaxEntriesB == 1

\* the dicts of at most n entries, their keys distinct
RawTables(n) ==
    {t \in UNION {[1..k -> RawEntries] : k \in 0..n} : \A i, j \in 1..Len(t) : i # j => t[i].canon # t[j].canon}

\* plan texts resolved against a table
PlanTexts == {"Dental", "dental", " dent ", "teeth", "dentl", "dex", ""}

\* thresholds in thousandths, the slider's range 0.5 .. 1.0
AliasThresholds == {500, 580, 889, 900, 1000}

\* no run and no direct call of the engine is under way
RunIdle ==
    /\ payroll = <<>> /\ carrier = <<>> /\ benadmin = <<>>
    /\ tol = 2
    /\ pc = "idle"
    /\ p_df = <<>> /\ c_df = <<>> /\ b_df = <<>>
    /\ errors_df = NoFrame
    /\ pre_df = NoFrame
    /\ summary_df = <<>>
    /\ freq_resolved = 0
    /\ dropped_rd = 0
    /\ dropped_freq = 0
    /\ call = NoCall

InitAliases ==
    /\ RunIdle
    /\ TablesIdle
    /\ alias_a0 \in RawTables(MaxEntriesA)
    /\ alias_b0 \in RawTables(MaxEntriesB)
    /\ alias_a = alias_a0 /\ alias_b = alias_b0
    /\ alias_table = <<>> /\ alias_fn = "none"
    /\ alias_name = "" /\ alias_thr = 0 /\ alias_res = ""
    /\ alias_pc = "start"
    /\ rapidfuzz_preprocess \in BOOLEAN

\* normalize_alias_dict(raw) builds a new dict and assigns nothing to raw
CallNormalizeAliasDict ==
    /\ alias_pc = "start"
    /\ alias_table' = normalize_alias_dict(alias_a)
    /\ alias_fn' = "normalize_alias_dict"
    /\ alias_pc' = "table"
    /\ UNCHANGED <<runVars, tableVars, alias_a0, alias_b0, alias_a, alias_b, alias_name, alias_thr, alias_res, rapidfuzz_preprocess>>

\* merge_aliases(a, b) works on the copy dict(a) and binds new lists to its
\* keys; it assigns nothing to a, to b or to their lists
CallMergeAliases ==
    /\ alias_pc = "start"
    /\ alias_table' = merge_aliases(alias_a, alias_b)
    /\ alias_fn' = "merge_aliases"
    /\ alias_pc' = "table"
    /\ UNCHANGED <<runVars, tableVars, alias_a0, alias_b0, alias_a, alias_b, alias_name, alias_thr, alias_res, rapidfuzz_preprocess>>

CallNormalizeWithAliases ==
    /\ alias_pc = "table"
    /\ \E name \in PlanTexts, threshold \in AliasThresholds :
          /\ alias_res' = normalize_with_aliases(name, alias_table, threshold)
          /\ alias_name' = name
          /\ alias_thr' = threshold
    /\ alias_pc' = "resolved"
    /\ UNCHANGED <<runVars, tableVars, alias_a0, alias_b0, alias_a, alias_b, alias_table, alias_fn, rapidfuzz_preprocess>>

NextAliases ==
    \/ CallNormalizeAliasDict
    \/ CallMergeAliases
    \/ CallNormalizeWithAliases

SpecAliases == InitAliases /\ [][NextAliases]_vars

(***************************************************************************)
(* The engine and the table transforms called on tables as a caller holds  *)
(* them: headers as the files spell them, SSN and plan text as typed.      *)
(***************************************************************************)
\* the headers of a file: the canonical names, names standardize_columns
\* knows, and a file whose SSN and employee cost columns have names it does
\* not know
CanonicalLayout ==
    <<[name |-> "SSN", field |-> "ssn"], [name |-> "First Name", field |-> "first"],
      [name |-> "Last Name", field |-> "last"], [name |-> "Plan Name", field |-> "plan"],
      [name |-> "Employee Cost", field |-> "ee"], [name |-> "Employer Cost", field |-> "er"]>>

KnownLayout ==
    <<[name |-> "Social Security Number", field |-> "ssn"], [name |-> "first name", field |-> "first"],
      [name |-> "Last Name", field |-> "last"], [name |-> " PLAN", field |-> "plan"],
      [name |-> "employee  amount", field |-> "ee"], [name |-> "Employer Amount", field |-> "er"]>>

UnknownLayout ==
    <<[name |-> "Member ID", field |-> "ssn"], [name |-> "First Name", field |-> "first"],
      [name |-> "Last Name", field |-> "last"], [name |-> "Plan Name", field |-> "plan"],
      [name |-> "EE Amount", field |-> "ee"], [name |-> "Employer Cost", field |-> "er"]>>

Layouts == {CanonicalLayout, KnownLayout, UnknownLayout}

RawSSNs == {"12345678", "012-34-5678"}
RawPlans == {"Dental", " dental ", "dental"}

RawRows == {[ssn |-> s, first |-> f, last |-> l, plan |-> p, ee |-> 1200, er |-> 600] :
               s \in RawSSNs, f \in FirstNames, l \in LastNames, p \in RawPlans}

\* total number of rows over the three tables of a caller
MaxRawRows == 2

InitTables ==
    /\ RunIdle
    /\ AliasIdle
    /\ \E np \in 0..MaxRawRows, nc \in 0..MaxRawRows, nb \in 0..MaxRawRows :
          /\ np + nc + nb <= MaxRawRows
          /\ \E rp \in [1..np -> RawRows], rc \in [1..nc -> RawRows], rb \in [1..nb -> RawRows],
                hp \in Layouts, hc \in Layouts, hb \in Layouts :
                tab0 = [Payroll |-> Frame(hp, rp), Carrier |-> Frame(hc, rc), BenAdmin |-> Frame(hb, rb)]
    /\ tab = tab0
    /\ ret = NoRet
    /\ tpc = "start"

\* reconcile_two(a, b, a_name, b_name, thr): works on a.copy() and b.copy()
TablesReconcileTwo ==
    /\ tpc = "start"
    /\ \E pr \in Pairs, thr \in Thresholds :
          LET Assign(res) ==
                  ret' = [fn |-> "reconcile_two", a |-> pr[1], b |-> pr[2], raised |-> res.raised,
                          errors |-> res.errors, summary |-> res.summary, out |-> <<>>]
          IN Assign(reconcile_two_tables(tab[pr[1]], tab[pr[2]], pr[1], pr[2], thr))
    /\ tab' = tab
    /\ tpc' = "returned"
    /\ UNCHANGED <<runVars, aliasVars, tab0>>

\* reconcile_three(payroll, carrier, benadmin, thr): hands its tables to reconcile_two
TablesReconcileThree ==
    /\ tpc = "start"
    /\ \E thr \in Thresholds :
          LET Assign(res) ==
                  ret' = [fn |-> "reconcile_three", a |-> "", b |-> "", raised |-> res.raised,
                          errors |-> res.errors, summary |-> res.summary, out |-> <<>>]
          IN Assign(reconcile_three_tables(tab["Payroll"], tab["Carrier"], tab["BenAdmin"], thr))
    /\ tab' = tab
    /\ tpc' = "returned"
    /\ UNCHANGED <<runVars, aliasVars, tab0>>

\* what a transform of one table returned
Transformed(fn, src, out) ==
    [fn |-> fn, a |-> src, b |-> "", raised |-> None, errors |-> NoFrame, summary |-> <<>>, out |-> out]

\* standardize_columns(df): df.rename returns a new table
CallStandardizeColumns ==
    /\ tpc = "start"
    /\ \E src \in Sources : ret' = Transformed("standardize_columns", src, standardize_columns(tab[src]))
    /\ tab' = tab
    /\ tpc' = "returned"
    /\ UNCHANGED <<runVars, aliasVars, tab0>>

\* standardize_df(df): works on df.copy()
CallStandardizeDf ==
    /\ tpc = "start"
    /\ \E src \in Sources : ret' = Transformed("standardize_df", src, standardize_df(tab[src]))
    /\ tab' = tab
    /\ tpc' = "returned"
    /\ UNCHANGED <<runVars, aliasVars, tab0>>

\* the tables a transform written for the canonical column names is called on
Standardized == {src \in Sources : tab[src].cols = CanonicalLayout}

\* coerce_types(df): assigns the coerced columns to df itself and returns df
CallCoerceTypes ==
    /\ tpc = "start"
    /\ \E src \in Standardized :
          LET Assign(out) == /\ ret' = Transformed("coerce_types", src, out)
                             /\ tab' = [tab EXCEPT ![src] = out]
          IN Assign(Frame(tab[src].cols, coerce_types(tab[src].rows)))
    /\ tpc' = "returned"
    /\ UNCHANGED <<runVars, aliasVars, tab0>>

\* apply_aliases_to_df(df, "Plan Name", aliases, threshold): works on df.copy()
CallApplyAliases ==
    /\ tpc = "start"
    /\ \E src \in Standardized :
          ret' = Transformed("apply_aliases_to_df", src,
                             Frame(tab[src].cols, apply_aliases_to_df(tab[src].rows, SessionAliases, 900)))
    /\ tab' = tab
    /\ tpc' = "returned"
    /\ UNCHANGED <<runVars, aliasVars, tab0>>

\* strip_carrier_prefixes(df): works on df.copy()
CallStripCarrierPrefixes ==
    /\ tpc = "start"
    /\ \E src \in Standardized :
          ret' = Transformed("strip_carrier_prefixes", src, Frame(tab[src].cols, strip_carrier_prefixes(tab[src].rows)))
    /\ tab' = tab
    /\ tpc' = "returned"
    /\ UNCHANGED <<runVars, aliasVars, tab0>>

\* normalize_amounts(df, tolerance_cents, blank_is_zero): works on df.copy()
CallNormalizeAmounts ==
    /\ tpc = "start"
    /\ \E src \in Standardized, t \in 0..MaxTol, blank_is_zero \in BOOLEAN :
          ret' = Transformed("normalize_amounts", src, Frame(tab[src].cols, normalize_amounts(tab[src].rows, t, blank_is_zero)))
    /\ tab' = tab
    /\ tpc' = "returned"
    /\ UNCHANGED <<runVars, aliasVars, tab0>>

\* totals_by_key_all(df): groupby().agg() builds a new table; an empty df is
\* returned as it is
CallTotalsByKeyAll ==
    /\ tpc = "start"
    /\ \E src \in Standardized :
          ret' = Transformed("totals_by_key_all", src, Frame(tab[src].cols, totals_by_key_all(tab[src].rows)))
    /\ tab' = tab
    /\ tpc' = "returned"
    /\ UNCHANGED <<runVars, aliasVars, tab0>>

NextTables ==
    \/ TablesReconcileTwo
    \/ TablesReconcileThree
    \/ CallStandardizeColumns
    \/ CallStandardizeDf
    \/ CallCoerceTypes
    \/ CallApplyAliases
    \/ CallStripCarrierPrefixes
    \/ CallNormalizeAmounts
    \/ CallTotalsByKeyAll

SpecTables == InitTables /\ [][NextTables]_vars

(***************************************************************************)
(* Functions of the application and of the engine called on their own, on  *)
(* tables with blank and malformed cells and on the plan names of the      *)
(* default alias table.                                                    *)
(***************************************************************************)
\* steps 1 and 2 of the run on one plan name: carrier tokens stripped, then
\* the session's aliases applied at threshold 0.90
PlanRow(name) == [ssn |-> "000000001", first |-> "Ann", last |-> "Lee", plan |-> name, ee |-> 1200, er |-> 600]

PlanCleanup(name) == apply_aliases_to_df(strip_carrier_prefixes(<<PlanRow(name)>>), SessionAliases, 900)[1].plan

\* the canonical names and the synonyms of the session's alias table
DefaultPlanNames ==
    DictKeys(SessionAliases) \cup UNION {Range(SessionAliases[i].al) : i \in 1..Len(SessionAliases)}

\* rows of several people and lines under one (SSN, plan)
AggRows == {[ssn |-> s, first |-> n, last |-> "Lee", plan |-> p, ee |-> c[1], er |-> c[2]] :
               s \in {"000000001", "000000002"}, n \in {"Ann", "Bob"}, p \in Plans, c \in {<<1200, 600>>, <<100, 50>>}}

\* the largest table handed to totals_by_key_all
MaxAggRows == 3

\* one record of a key, each money cell blank (NA) or a value
BlankRows == {[ssn |-> "000000001", first |-> "Ann", last |-> "Lee", plan |-> "dental", ee |-> e, er |-> r] :
                 e \in {NA, 0, 1200}, r \in {NA, 0, 600}}

\* rows as a file gives them: an identity with or without digits and
\* punctuation, an employee cost that is a number, blank or not numeric
CellRows == {[ssn |-> s, first |-> "Ann", last |-> "Lee", plan |-> "dental", ee |-> e, er |-> 600] :
                s \in {"7", "7x", "x", "8"}, e \in {1200, 0, NA, NotNumeric}}

\* the largest number of rows of the two tables of a call with malformed cells
MaxCellRows == 2

InitCalls ==
    /\ RunIdle
    /\ alias_a0 = <<>> /\ alias_b0 = <<>> /\ alias_a = <<>> /\ alias_b = <<>>
    /\ alias_table = <<>> /\ alias_fn = "none"
    /\ alias_name = "" /\ alias_thr = 0 /\ alias_res = ""
    /\ alias_pc = "idle"
    /\ rapidfuzz_preprocess \in BOOLEAN
    /\ tab0 = [s \in Sources |-> NoFrame]
    /\ tab = [s \in Sources |-> NoFrame]
    /\ ret = NoRet
    /\ tpc = "ready"

\* run, steps 1 and 2, on a plan name of the default table
CallPlanCleanup ==
    /\ tpc = "ready"
    /\ \E name \in DefaultPlanNames : ret' = [fn |-> "plan_cleanup", name |-> name, out |-> PlanCleanup(name)]
    /\ tpc' = "returned"
    /\ UNCHANGED <<runVars, aliasVars, tab0, tab>>

CallTotalsOfTable ==
    /\ tpc = "ready"
    /\ \E n \in 0..MaxAggRows : \E df \in [1..n -> AggRows] :
          ret' = [fn |-> "totals_by_key_all", df |-> df, out |-> totals_by_key_all(df)]
    /\ tpc' = "returned"
    /\ UNCHANGED <<runVars, aliasVars, tab0, tab>>

\* normalize_amounts on each table, then reconcile_totals_two, as the run
\* calls them (steps 3 and 6)
CallNormalizeThenTotals ==
    /\ tpc = "ready"
    /\ \E a \in BlankRows, b \in BlankRows, t \in 0..MaxTol, blank_is_zero \in BOOLEAN :
          LET Assign(res) ==
                  ret' = [fn |-> "reconcile_totals_two", a |-> <<a>>, b |-> <<b>>, cents |-> t,
                          blank_is_zero |-> blank_is_zero, errors |-> res.errors, summary |-> res.summary]
          IN Assign(reconcile_totals_two(normalize_amounts(<<a>>, t, blank_is_zero),
                                         normalize_amounts(<<b>>, t, blank_is_zero), "Payroll", "Carrier", t))
    /\ tpc' = "returned"
    /\ UNCHANGED <<runVars, aliasVars, tab0, tab>>

\* reconcile_two on tables that have the required columns, whatever the cells
CallReconcileTwoCells ==
    /\ tpc = "ready"
    /\ \E na \in 0..MaxCellRows, nb \in 0..MaxCellRows, thr \in Thresholds :
          /\ na + nb <= MaxCellRows
          /\ \E a \in [1..na -> CellRows], b \in [1..nb -> CellRows] :
                LET Assign(res) ==
                        ret' = [fn |-> "reconcile_two", a |-> a, b |-> b, thr |-> thr, raised |-> res.raised,
                                errors |-> res.errors, summary |-> res.summary]
                IN Assign(reconcile_two_tables(Frame(CanonicalLayout, a), Frame(CanonicalLayout, b),
                                               "Payroll", "Carrier", thr))
    /\ tpc' = "returned"
    /\ UNCHANGED <<runVars, aliasVars, tab0, tab>>

NextCalls ==
    \/ CallPlanCleanup
    \/ CallTotalsOfTable
    \/ CallNormalizeThenTotals
    \/ CallReconcileTwoCells

SpecCalls == InitCalls /\ [][NextCalls]_vars

(***************************************************************************)
(* Properties.  A state with pc = "returned" holds the result of a direct  *)
(* call of reconcile_two or reconcile_three on the uploaded tables; the    *)
(* states of the run hold the result of the step named by pc.              *)
(***************************************************************************)
RowsOfKey(df, k) == SelectSeq(df, LAMBDA r : r.ssn = k[1] /\ r.plan = k[2])

\* the number of discrepancies of type t reported for key k
CountFor(errs, t, k) ==
    Cardinality({i \in 1..Len(errs.rows) : errs.rows[i].type = t /\ errs.rows[i].ssn = k[1] /\ errs.rows[i].plan = k[2]})

\* the number of discrepancies of any type reported for key k
CountKey(errs, k) ==
    Cardinality({i \in 1..Len(errs.rows) : errs.rows[i].ssn = k[1] /\ errs.rows[i].plan = k[2]})

MismatchTypes == {"Plan Name Mismatch", "Employee Amount Mismatch", "Employer Amount Mismatch"}

\* the tables as the totals engine receives them
Normalized(name) == IF name = "Payroll" THEN p_df ELSE IF name = "Carrier" THEN c_df ELSE b_df

\* keys carried by exactly one row in each of the two tables
SingleInBoth(A, B) == {k \in KeysOf(A) \cap KeysOf(B) : Len(RowsOfKey(A, k)) = 1 /\ Len(RowsOfKey(B, k)) = 1}

\* C1: reconcile_two reports every key found in exactly one of its two tables
\* with exactly one "Missing in <other source>" row and with no plan or amount
\* mismatch, however many rows of the one table carry the key.
C1_OneMissingPerKey ==
    (pc = "returned" /\ call.fn = "reconcile_two") =>
        /\ \A k \in KeysOf(Uploaded(call.a)) \ KeysOf(Uploaded(call.b)) :
              /\ CountFor(errors_df, "Missing in " \o call.b, k) = 1
              /\ \A t \in MismatchTypes : CountFor(errors_df, t, k) = 0
        /\ \A k \in KeysOf(Uploaded(call.b)) \ KeysOf(Uploaded(call.a)) :
              /\ CountFor(errors_df, "Missing in " \o call.a, k) = 1
              /\ \A t \in MismatchTypes : CountFor(errors_df, t, k) = 0

\* C2: in the run (normalize_amounts with tolerance tol, then
\* reconcile_totals_two with the same tol), a key carried by one row of each
\* source whose uploaded employee costs differ by at most tol cents and whose
\* employer costs differ by at most tol cents gets no discrepancy.
C2_WithinToleranceNoDiscrepancy ==
    (pc = "drilldown" /\ call.fn = "reconcile_totals_two") =>
        \A k \in SingleInBoth(Uploaded(call.a), Uploaded(call.b)) :
            LET ra == RowsOfKey(Uploaded(call.a), k)[1]
                rb == RowsOfKey(Uploaded(call.b), k)[1]
            IN (Abs(ra.ee - rb.ee) <= tol /\ Abs(ra.er - rb.er) <= tol) => CountKey(errors_df, k) = 0

\* C3: at the end of the run with smart cleanup on, a key carried by one row
\* of each of two sources whose employee costs differ by more than tol cents,
\* the gap not being one the totals engine puts down to a pay-frequency
\* factor, still has an Employee Amount Mismatch (12.00 against 12.02 with
\* tol = 1); 12.00 against 12.02 with tol = 2 leaves no discrepancy.
C3_GapBeyondToleranceReported ==
    (pc = "done" /\ call.fn = "reconcile_totals_two") =>
        \A k \in SingleInBoth(Uploaded(call.a), Uploaded(call.b)) :
            LET ra == RowsOfKey(Uploaded(call.a), k)[1]
                rb == RowsOfKey(Uploaded(call.b), k)[1]
            IN /\ (Abs(ra.ee - rb.ee) > tol /\ ~_freq_ok(ra.ee, rb.ee, tol, 10).ok)
                    => CountFor(errors_df, "Employee Amount Mismatch", k) >= 1
               /\ ({ra.ee, rb.ee} = {1200, 1202} /\ ra.er = rb.er /\ tol = 2) => CountKey(errors_df, k) = 0

\* one amount is f times the other for a pay-frequency factor f
ExactMultiple(x, y) ==
    \E i \in 1..Len(FREQUENCY_FACTORS) : x = FREQUENCY_FACTORS[i] * y \/ y = FREQUENCY_FACTORS[i] * x

\* C4: reconcile_totals_two emits no amount mismatch for a field of a key of
\* both sources whose totals are an exact pay-frequency multiple of one
\* another, and its frequency-resolved count is the number of keys of both
\* sources accepted without a mismatch although a field differs by more than
\* the tolerance, each key counted once.
C4_FrequencyResolved ==
    (pc = "drilldown" /\ call.fn = "reconcile_totals_two") =>
        LET A == Normalized(call.a)
            B == Normalized(call.b)
            ee(df, k) == SumSeq(Column(RowsOfKey(df, k), "ee"))
            er(df, k) == SumSeq(Column(RowsOfKey(df, k), "er"))
            both == KeysOf(A) \cap KeysOf(B)
        IN /\ \A k \in both :
                 /\ ExactMultiple(ee(A, k), ee(B, k)) => CountFor(errors_df, "Employee Amount Mismatch", k) = 0
                 /\ ExactMultiple(er(A, k), er(B, k)) => CountFor(errors_df, "Employer Amount Mismatch", k) = 0
           /\ freq_resolved =
                 Cardinality({k \in both :
                                 /\ CountKey(errors_df, k) = 0
                                 /\ \/ Abs(ee(A, k) - ee(B, k)) > tol
                                    \/ Abs(er(A, k) - er(B, k)) > tol})

\* a key whose two fields are both resolved by the factor 12 was counted once
C4_Witness ==
    /\ pc = "drilldown" /\ call.fn = "reconcile_totals_two"
    /\ freq_resolved = 1
    /\ Len(errors_df.rows) = 0
    /\ \E k \in KeysOf(Normalized(call.a)) \cap KeysOf(Normalized(call.b)) :
          /\ RowsOfKey(Normalized(call.a), k)[1].ee = 100 /\ RowsOfKey(Normalized(call.b), k)[1].ee = 1200
          /\ RowsOfKey(Normalized(call.a), k)[1].er = 50 /\ RowsOfKey(Normalized(call.b), k)[1].er = 600

\* C5: reconcile_two emits an Employee (Employer) Amount Mismatch only when
\* the two employee (employer) costs differ by more than the tolerance, which
\* is at least one cent.
C5_CompareUsesTolerance ==
    (pc = "returned" /\ call.fn = "reconcile_two") =>
        \A i \in 1..Len(errors_df.rows) :
            /\ errors_df.rows[i].type = "Employee Amount Mismatch"
                  => Abs(errors_df.rows[i].ee[call.a] - errors_df.rows[i].ee[call.b]) > 1
            /\ errors_df.rows[i].type = "Employer Amount Mismatch"
                  => Abs(errors_df.rows[i].er[call.a] - errors_df.rows[i].er[call.b]) > 1

\* the rows of the three pairwise comparisons, in the order they are made
PairwiseRows(thr) ==
    Flatten([i \in 1..3 |->
                reconcile_two(Uploaded(PairList[i][1]), Uploaded(PairList[i][2]),
                              PairList[i][1], PairList[i][2], thr).errors.rows])

\* C6: the table reconcile_three returns has at most one row per (Error Type,
\* SSN, Plan Name), the row kept being the first with that triple among the
\* rows of Payroll-Carrier, Payroll-BenAdmin, Carrier-BenAdmin in that order,
\* and every triple one of the three comparisons reports is in the table.
C6_ThreeWayDedup ==
    (pc = "returned" /\ call.fn = "reconcile_three") =>
        LET cat == PairwiseRows(call.thr)
            rows == errors_df.rows
            FirstOf(key) == cat[CHOOSE j \in 1..Len(cat) :
                                   DedupKey(cat[j]) = key /\ \A h \in 1..(j - 1) : DedupKey(cat[h]) # key]
        IN /\ \A i, j \in 1..Len(rows) : i # j => DedupKey(rows[i]) # DedupKey(rows[j])
           /\ \A i \in 1..Len(rows) :
                 /\ \E j \in 1..Len(cat) : DedupKey(cat[j]) = DedupKey(rows[i])
                 /\ rows[i] = FirstOf(DedupKey(rows[i]))
           /\ \A j \in 1..Len(cat) : \E i \in 1..Len(rows) : DedupKey(rows[i]) = DedupKey(cat[j])

\* reconcile_three dropped a row that repeats a triple with other cells
C6_Witness ==
    /\ pc = "returned" /\ call.fn = "reconcile_three"
    /\ Len(errors_df.rows) >= 1
    /\ \E i, j \in 1..Len(PairwiseRows(call.thr)) :
          /\ i < j
          /\ DedupKey(PairwiseRows(call.thr)[i]) = DedupKey(PairwiseRows(call.thr)[j])
          /\ PairwiseRows(call.thr)[i] # PairwiseRows(call.thr)[j]

\* C7: in the three-way comparison of the run (reconcile_totals_three), a key
\* of Payroll and of Carrier with equal totals that BenAdmin lacks gets
\* exactly one "Missing in BenAdmin" discrepancy.
C7_OneMissingInThreeWay ==
    (pc = "drilldown" /\ call.fn = "reconcile_totals_three") =>
        \A k \in (KeysOf(p_df) \cap KeysOf(c_df)) \ KeysOf(b_df) :
            (/\ SumSeq(Column(RowsOfKey(p_df, k), "ee")) = SumSeq(Column(RowsOfKey(c_df, k), "ee"))
             /\ SumSeq(Column(RowsOfKey(p_df, k), "er")) = SumSeq(Column(RowsOfKey(c_df, k), "er")))
                => CountFor(errors_df, "Missing in BenAdmin", k) = 1

\* summary has one row per error type of errs with the number of its rows,
\* and Total rows that hold the sum of the other counts, the number of rows
IsSummaryOf(summary, errs) ==
    LET types == {errs.rows[i].type : i \in 1..Len(errs.rows)}
        counts == SelectSeq(summary, LAMBDA x : x.type # "Total")
    IN /\ \A t \in types : Cardinality({i \in 1..Len(counts) : counts[i].type = t}) = 1
       /\ \A i \in 1..Len(counts) :
             counts[i].type \in types /\ counts[i].count = CountType(errs.rows, counts[i].type)
       /\ \E i \in 1..Len(summary) : summary[i].type = "Total"
       /\ \A i \in 1..Len(summary) :
             summary[i].type = "Total" =>
                 summary[i].count = SumCounts(counts) /\ summary[i].count = Len(errs.rows)

\* C8: the summary returned by reconcile_two, reconcile_three,
\* reconcile_totals_two and reconcile_totals_three has one row per distinct
\* Error Type of the discrepancy table, its Count the number of rows of that
\* type, and a Total whose Count is the sum of the other counts, which is the
\* number of discrepancy rows.
C8_SummaryCounts ==
    (pc \in {"returned", "drilldown"}) => IsSummaryOf(summary_df, errors_df)

\* a summary of several types, one of them counted more than once
C8_Witness ==
    /\ pc \in {"returned", "drilldown"}
    /\ Len(summary_df) >= 3
    /\ \E i \in 1..Len(summary_df) : summary_df[i].type # "Total" /\ summary_df[i].count >= 2

\* C9: a comparison that finds no discrepancy returns the summary of exactly
\* one row, Total with Count 0, and no summary has more than one Total row.
C9_EmptySummaryIsTotalZero ==
    (pc \in {"returned", "drilldown"}) =>
        /\ Len(errors_df.rows) = 0 => summary_df = <<TotalRow(0)>>
        /\ Cardinality({i \in 1..Len(summary_df) : summary_df[i].type = "Total"}) <= 1

\* C10: after each suppression pass of the run the summary is the summary of
\* the discrepancies that remain: its Total is the number of remaining rows,
\* also when the pass removed every row.
C10_SummaryAfterSuppression ==
    (pc \in {"cleanup2", "done"}) =>
        \A i \in 1..Len(summary_df) : summary_df[i].type = "Total" => summary_df[i].count = Len(errors_df.rows)

\* the number of rows of a table that the returned table lacks
AbsentRows(before, after) == Cardinality({i \in 1..Len(before.rows) : before.rows[i] \notin Range(after.rows)})

\* C11: after postfilter_row_detail_totals and after
\* postfilter_keys_matching_by_frequency, the count the pass returns is the
\* number of rows of the table it was given that the table it returns lacks,
\* and the count is 0 exactly when it returns the table it was given.
C11_SuppressionCount ==
    /\ pc = "cleanup2" => (dropped_rd = AbsentRows(pre_df, errors_df) /\ (dropped_rd = 0 <=> errors_df = pre_df))
    /\ pc = "done" => (dropped_freq = AbsentRows(pre_df, errors_df) /\ (dropped_freq = 0 <=> errors_df = pre_df))

\* the first pass dropped the two row-level mismatches of one key and kept other rows
C11_Witness ==
    /\ pc = "cleanup2"
    /\ dropped_rd = 2
    /\ Len(errors_df.rows) >= 1
    /\ Len(pre_df.rows) = Len(errors_df.rows) + 2

\* C12: normalize_with_aliases gives back every canonical key of the table it
\* is asked to resolve, at every threshold, the table being one returned by
\* normalize_alias_dict or by merge_aliases.
C12_CanonicalsResolveToThemselves ==
    (alias_pc = "resolved" /\ alias_name \in DictKeys(alias_table)) => alias_res = alias_name

\* the positions of the entries whose alias list holds s
AliasHits(table, s) == {i \in 1..Len(table) : s \in Range(table[i].al)}

\* C13: the trimmed, lowercased plan text that is a canonical key is returned
\* as that key, also when an alias list of another canonical name holds it;
\* one that is no key but is in an alias list gives the canonical name of the
\* first entry, in the order of the table, whose list holds it; the fuzzy
\* match has no say in either case.
C13_FirstMatchWins ==
    (alias_pc = "resolved" /\ alias_name # "" /\ lower(strip(alias_name)) # "") =>
        LET s == lower(strip(alias_name))
            hits == AliasHits(alias_table, s)
        IN /\ s \in DictKeys(alias_table) => alias_res = s
           /\ (s \notin DictKeys(alias_table) /\ hits # {}) =>
                  alias_res = alias_table[CHOOSE i \in hits : \A j \in hits : i <= j].canon

\* a canonical key that an earlier entry lists as an alias was returned as itself
C13_Witness ==
    /\ alias_pc = "resolved"
    /\ alias_name = "dental"
    /\ alias_res = "dental"
    /\ Len(alias_table) = 2
    /\ alias_table[1].canon = "teeth" /\ "dental" \in Range(alias_table[1].al)
    /\ alias_table[2].canon = "dental"

\* C14: a plan text that is neither a canonical key nor an alias is resolved
\* to a canonical name of the best-scoring candidate when the best score is at
\* least the threshold, and is returned unchanged when the best score is
\* below the threshold, whatever the threshold between 0.5 and 1.0.
C14_FuzzyThreshold ==
    (/\ alias_pc = "resolved" /\ alias_name # "" /\ lower(strip(alias_name)) # ""
     /\ lower(strip(alias_name)) \notin DictKeys(alias_table)
     /\ AliasHits(alias_table, lower(strip(alias_name))) = {}
     /\ Len(alias_table) > 0) =>
        LET best == extractOne(lower(strip(alias_name)),
                               Flatten([i \in 1..Len(alias_table) |-> <<alias_table[i].canon>> \o alias_table[i].al]))
        IN IF 10 * best.score.m >= alias_thr * best.score.t
           THEN \E i \in 1..Len(alias_table) :
                    /\ alias_res = alias_table[i].canon
                    /\ best.choice = alias_table[i].canon \/ best.choice \in Range(alias_table[i].al)
           ELSE alias_res = alias_name

\* a name compared trimmed and case-folded
Folded(x) == lower(strip(x))

\* the aliases a table gives for the canonical name c, case-folded, without
\* the empty string and without c itself
SynonymsOf(table, c) ==
    UNION {{Folded(table[i].al[j]) : j \in 1..Len(table[i].al)} : i \in {k \in 1..Len(table) : Folded(table[k].canon) = c}} \ {"", c}

\* C15: the table merge_aliases(A, B) returns has one entry for each canonical
\* name of A or B, names compared trimmed and case-folded, the aliases of the
\* entry being those A gives it together with those B gives it; A and B are
\* as they were before the call.
C15_MergeUnions ==
    (alias_pc = "table" /\ alias_fn = "merge_aliases") =>
        /\ \A i, j \in 1..Len(alias_table) : i # j => Folded(alias_table[i].canon) # Folded(alias_table[j].canon)
        /\ {Folded(alias_table[i].canon) : i \in 1..Len(alias_table)}
              = {Folded(c) : c \in DictKeys(alias_a0) \cup DictKeys(alias_b0)}
        /\ \A i \in 1..Len(alias_table) :
              Range(alias_table[i].al)
                 = SynonymsOf(alias_a0, Folded(alias_table[i].canon)) \cup SynonymsOf(alias_b0, Folded(alias_table[i].canon))
        /\ alias_a = alias_a0 /\ alias_b = alias_b0

\* lowercase, trimmed and not empty
IsClean(x) == x # "" /\ x = lower(strip(x))

\* C16: in a table returned by normalize_alias_dict or by merge_aliases every
\* canonical key is lowercase, trimmed and not empty, and every alias list
\* holds lowercase, trimmed, non-empty strings, none twice and none equal to
\* the canonical name of the list.
C16_TableNormalized ==
    (alias_pc = "table") =>
        \A i \in 1..Len(alias_table) :
            /\ IsClean(alias_table[i].canon)
            /\ \A j \in 1..Len(alias_table[i].al) :
                  /\ IsClean(alias_table[i].al[j])
                  /\ alias_table[i].al[j] # alias_table[i].canon
                  /\ \A k \in 1..Len(alias_table[i].al) : k # j => alias_table[i].al[k] # alias_table[i].al[j]

\* the tables of a call of the engine, in the order it prepares them
EngineArgs == IF ret.fn = "reconcile_two" THEN <<ret.a, ret.b>> ELSE <<"Payroll", "Carrier", "BenAdmin">>

\* the required columns a table lacks once its headers are standardized
MissingRequired(df) ==
    LET Lacking(names) == SelectSeq(REQUIRED_COLS, LAMBDA c : c \notin names)
    IN Lacking({IF normalize_header(df.cols[i].name) # None THEN normalize_header(df.cols[i].name) ELSE df.cols[i].name :
                   i \in 1..Len(df.cols)})

\* C17: when a table passed to reconcile_two or reconcile_three lacks a
\* required column after header standardization, the call raises an error
\* that names an offending source and lists every required column that table
\* lacks, and returns neither discrepancies nor a summary.
C17_MissingColumnsFail ==
    (tpc = "returned" /\ ret.fn \in {"reconcile_two", "reconcile_three"}) =>
        LET Fails(lacking) ==
                (\E k \in 1..Len(lacking) : lacking[k] # <<>>) =>
                    /\ \E k \in 1..Len(lacking) :
                          /\ lacking[k] # <<>>
                          /\ ret.raised = EngineArgs[k] \o ": Missing required columns: " \o JoinWith(lacking[k], ", ")
                    /\ ret.errors = NoFrame
                    /\ ret.summary = <<>>
        IN Fails([k \in 1..Len(EngineArgs) |-> MissingRequired(tab0[EngineArgs[k]])])

C17_Witness ==
    /\ tpc = "returned" /\ ret.fn = "reconcile_three"
    /\ tab0["Payroll"].cols = KnownLayout /\ tab0["Carrier"].cols = UnknownLayout
    /\ Len(tab0["Payroll"].rows) = 1 /\ Len(tab0["Carrier"].rows) = 1
    /\ ret.raised = "Carrier: Missing required columns: SSN, Employee Cost"
    /\ ret.errors = NoFrame /\ ret.summary = <<>>

\* an identity as digits only, left-zero-padded to width 9
Identity(x) == zfill(digits_only(x), 9)

\* the rows of ret.errors that report a record as missing from a source
MissingRows == SelectSeq(ret.errors.rows, LAMBDA e : Contains(e.type, "Missing in"))

\* C18: coerce_types leaves every identity a digits-only string zero-padded
\* to width 9, and reconcile_two reports no record as missing when the other
\* table holds a record of the same plan whose identity differs only by
\* punctuation or leading zeros.
C18_IdentityPadded ==
    /\ (tpc = "returned" /\ ret.fn = "coerce_types") =>
          \A i \in 1..Len(ret.out.rows) : ret.out.rows[i].ssn = Identity(tab0[ret.a].rows[i].ssn)
    /\ (tpc = "returned" /\ ret.fn = "reconcile_two" /\ ret.raised = None) =>
          \A i \in 1..Len(tab0[ret.a].rows), j \in 1..Len(tab0[ret.b].rows) :
              (/\ Identity(tab0[ret.a].rows[i].ssn) = Identity(tab0[ret.b].rows[j].ssn)
               /\ strip(tab0[ret.a].rows[i].plan) = strip(tab0[ret.b].rows[j].plan)) =>
                  \A k \in 1..Len(MissingRows) :
                      ~(/\ Identity(MissingRows[k].ssn) = Identity(tab0[ret.a].rows[i].ssn)
                        /\ MissingRows[k].plan = strip(tab0[ret.a].rows[i].plan))

\* C19: reconcile_two reports no record as missing when the other table holds
\* a record of the same identity whose plan name differs only by case and
\* surrounding blanks.
C19_PlanTrimmedLowercased ==
    (tpc = "returned" /\ ret.fn = "reconcile_two" /\ ret.raised = None) =>
        \A i \in 1..Len(tab0[ret.a].rows), j \in 1..Len(tab0[ret.b].rows) :
            (/\ digits_only(tab0[ret.a].rows[i].ssn) = digits_only(tab0[ret.b].rows[j].ssn)
             /\ lower(strip(tab0[ret.a].rows[i].plan)) = lower(strip(tab0[ret.b].rows[j].plan))) =>
                \A k \in 1..Len(MissingRows) :
                    ~(/\ MissingRows[k].ssn = digits_only(tab0[ret.a].rows[i].ssn)
                      /\ lower(strip(MissingRows[k].plan)) = lower(strip(tab0[ret.a].rows[i].plan)))

\* C20: after a call of any table transform or of the engine, every table
\* the caller passed in has the columns and the cell values it had before.
C20_InputsUnchanged ==
    (tpc = "returned") => tab = tab0

\* the normalized plan names, the empty one apart, that the rows of the two
\* tables give the identity ssn
PlansOfIdentity(A, B, ssn) ==
    {normalize_plan_name(r.plan) : r \in {x \in Range(A) \cup Range(B) : x.ssn = ssn}} \ {""}

DuplicateRows(errs, ssn) ==
    SelectSeq(errs.rows, LAMBDA r : r.type = "Duplicate SSN with Different Plans" /\ r.ssn = ssn)

\* C21: reconcile_two reports every identity that the rows of its two tables
\* give more than one normalized plan name with exactly one "Duplicate SSN
\* with Different Plans" row whose Plan Name lists all those plan names, and
\* reports no such row for an identity with a single plan name.
C21_DuplicateIdentity ==
    (pc = "returned" /\ call.fn = "reconcile_two") =>
        \A ssn \in {r.ssn : r \in Range(Uploaded(call.a)) \cup Range(Uploaded(call.b))} :
            LET Reported(plans, dups) ==
                    IF Cardinality(plans) > 1
                    THEN Len(dups) = 1 /\ dups[1].plan = JoinWith(SortStrings(plans), ", ")
                    ELSE Len(dups) = 0
            IN Reported(PlansOfIdentity(Uploaded(call.a), Uploaded(call.b), ssn), DuplicateRows(errors_df, ssn))

\* C25: postfilter_row_detail_totals removes the discrepancies of a key
\* either all or not at all, and the table it returns is the table it was
\* given without the rows of the removed keys, the other rows in their order
\* and with their values.
C25_DropsWholeKeys ==
    (pc = "cleanup2") =>
        /\ \A k \in KeysOf(pre_df.rows) :
              RowsOfKey(errors_df.rows, k) = RowsOfKey(pre_df.rows, k) \/ RowsOfKey(errors_df.rows, k) = <<>>
        /\ errors_df.rows = SelectSeq(pre_df.rows, LAMBDA r : RowsOfKey(errors_df.rows, <<r.ssn, r.plan>>) # <<>>)

\* the joined rows of reconcile_two present in both sources
JoinedInBoth(a, b, a_name, b_name) ==
    SelectSeq(MergeOnKey(_prepare(a, a_name), _prepare(b, b_name)), LAMBDA r : notna(r.a.ssn) /\ notna(r.b.ssn))

\* C26: in reconcile_two every joined row present in both sources has the
\* same Plan Name text on both sides and plan similarity 1.0, and no "Plan
\* Name Mismatch" row is returned, at any threshold.
C26_NoPlanNameMismatch ==
    (pc = "returned" /\ call.fn = "reconcile_two") =>
        LET SamePlan(both) ==
                \A i \in 1..Len(both) :
                    /\ both[i].a.plan = both[i].b.plan
                    /\ ~SimBelow(plan_similarity(both[i].a.plan, both[i].b.plan), 1000)
        IN /\ \A i \in 1..Len(errors_df.rows) : errors_df.rows[i].type # "Plan Name Mismatch"
           /\ SamePlan(JoinedInBoth(Uploaded(call.a), Uploaded(call.b), call.a, call.b))

\* reconcile_two at threshold 1.0 of tables that share a key and that give
\* one identity two plans
C26_Witness ==
    /\ pc = "returned" /\ call.fn = "reconcile_two" /\ call.thr = 1000
    /\ KeysOf(Uploaded(call.a)) \cap KeysOf(Uploaded(call.b)) # {}
    /\ \E x \in Range(Uploaded(call.a)), y \in Range(Uploaded(call.b)) : x.ssn = y.ssn /\ x.plan # y.plan
    /\ \A i \in 1..Len(errors_df.rows) : errors_df.rows[i].type # "Plan Name Mismatch"

\* the rows of table df whose identity and normalized plan are those of row r
RowsOfNormKey(df, r) == SelectSeq(df, LAMBDA x : x.ssn = r.ssn /\ _norm_plan(x.plan) = _norm_plan(r.plan))

\* C27: a row that postfilter_keys_matching_by_frequency removes is an
\* Employee (Employer) Amount Mismatch whose key has rows in both tables the
\* pass is given, the summed employee (employer) costs of which match within
\* tolerance plus slack, directly or under a frequency factor.
C27_SuppressedOnOwnField ==
    (pc = "done") =>
        \A r \in Range(pre_df.rows) \ Range(errors_df.rows) :
            LET Match(gp, gb, field) ==
                    /\ Len(gp) # 0 /\ Len(gb) # 0
                    /\ TotalsMatch(SumSeq(Column(gp, field)), SumSeq(Column(gb, field)), tol + 30)
            IN /\ Contains(r.type, "Amount Mismatch")
               /\ Match(RowsOfNormKey(p_df, r), RowsOfNormKey(b_df, r), IF Contains(r.type, "Employer") THEN "er" ELSE "ee")

\* C29: a "Missing in X" row of reconcile_totals_two carries the first and
\* last name of the record of the key in the other source.
C29_MissingCarriesNames ==
    (pc = "drilldown" /\ call.fn = "reconcile_totals_two") =>
        \A r \in Range(errors_df.rows) :
            LET Named(present) == r.first = present[1].first /\ r.last = present[1].last
            IN /\ r.type = "Missing in " \o call.a => Named(RowsOfKey(Normalized(call.b), <<r.ssn, r.plan>>))
               /\ r.type = "Missing in " \o call.b => Named(RowsOfKey(Normalized(call.a), <<r.ssn, r.plan>>))


\* a discrepancy of the given type among the rows
HasType(rows, t) == \E i \in 1..Len(rows) : rows[i].type = t

\* C22: after normalize_amounts and reconcile_totals_two with blank_is_zero
\* disabled, a key whose amount field is blank in one source and holds a value
\* (0.00 included) in the other has an amount mismatch for that field; with
\* blank_is_zero enabled the blank is compared as 0.00.
C22_BlankIsMismatchWhenDisabled ==
    (tpc = "returned" /\ ret.fn = "reconcile_totals_two") =>
        LET Field(x, y, t) ==
                /\ (~ret.blank_is_zero /\ ((x = NA) # (y = NA))) => HasType(ret.errors.rows, t)
                /\ (ret.blank_is_zero /\ (x = NA \/ y = NA)) =>
                       (HasType(ret.errors.rows, t) <=> ~_freq_ok(cents_of(x), cents_of(y), ret.cents, 10).ok)
        IN /\ Field(ret.a[1].ee, ret.b[1].ee, "Employee Amount Mismatch")
           /\ Field(ret.a[1].er, ret.b[1].er, "Employer Amount Mismatch")

MalformedMoney(x) == x = NA \/ x = NotNumeric

\* a row all of whose cells are well-formed
WellFormed(r) == r.ssn = digits_only(r.ssn) /\ ~MalformedMoney(r.ee) /\ ~MalformedMoney(r.er)

C30_CleanupKeepsCanonicals ==
    (tpc = "returned" /\ ret.fn = "plan_cleanup") =>
        /\ ret.name \in DictKeys(SessionAliases) => ret.out = ret.name
        /\ \A i \in 1..Len(SessionAliases) : ret.name \in Range(SessionAliases[i].al) => ret.out = SessionAliases[i].canon
        /\ ret.name # "" => ret.out # ""


\* C28: every (SSN, Plan Name) key that has an aggregated Amount Mismatch
\* before the drilldown step of the run still has at least one discrepancy
\* row in the list after the step.
C28_MismatchedKeyKeepsARow ==
    pc = "cleanup" =>
        \A k \in KeysOf(SelectSeq(pre_df.rows, LAMBDA r : ContainsNoCase(r.type, "Amount Mismatch"))) :
            \E i \in 1..Len(errors_df.rows) : <<errors_df.rows[i].ssn, errors_df.rows[i].plan>> = k
====
